---------------------------- MODULE Spec2Model ----------------------------
(***************************************************************************)
(* Secure Notes (Joplin plugin): password-based note encryption.           *)
(*                                                                         *)
(* Text is a sequence of tokens <<kind, payload>>: a lexeme <<"ch", s>>,   *)
(* the base64 text of a byte string <<"b64", bytes>>, or the JSON text of  *)
(* a legacy payload <<"json", payload>>.  A byte string is a sequence of   *)
(* segments <<kind, payload, from, to>>: the bytes from..to (1-based) of   *)
(* the value named by kind and payload, kept normalised (adjacent pieces   *)
(* of one value are merged), so that two byte strings are equal exactly    *)
(* when their segment lists are.  Cryptographic primitives are symbolic:   *)
(* a ciphertext, a tag or a derived key names the inputs it was computed   *)
(* from, and distinct inputs give distinct outputs.                        *)
(***************************************************************************)
EXTENDS Integers, Sequences, FiniteSets, TLC

VARIABLES
    variant,     \* which controller of the repository is installed
    body,        \* document store: note id -> body text
    tagged,      \* tag association: note id -> carries the lock tag
    selected,    \* the host's selected note
    aesOptions,  \* global aesOptions (current settings)
    noteId,      \* tag-based controller: global noteId
    isLocked,    \* tag-based controller: global isLocked
    upd,         \* tag-based controller: the note whose tag updateNoteInfo awaits
    ops,         \* the asynchronous invocations in flight
    rng,         \* number of values drawn from crypto.getRandomValues
    report,      \* what the last step reported: a report, or the cancellation it logged
    view,        \* the answer of the View operation given by the last step
    lab          \* inputs and results of encryptData / decryptData calls

vars == <<variant, body, tagged, selected, aesOptions, noteId, isLocked,
          upd, ops, rng, report, view, lab>>

---------------------------------------------------------------------------
(* Bounds of the model *)
MaxOps == 1
MaxTries == 3
MaxDraws == 2
MaxDocLen == 5
MaxFreshDraws == 6
MaxSalts == 5
MaxOverlap == 2

(* Program constants *)
SaltLen == 16
GcmIvLen == 12
IvLen == 16
GcmTagLen == 16
HmacTagLen == 32
DefaultKeySize == 256
HmacKeyBits == 256
BlockLen == 16

---------------------------------------------------------------------------
(* Text *)
Ch(s) == <<"ch", s>>
NL == Ch("\n")
SP == Ch(" ")
FENCE == Ch("FENCE")   \* the three backquotes that open or close a fenced block
BOM == Ch("BOM")
RC == Ch("RC")
HS == Ch("HS")

IsWs(t) == t[1] = "ch" /\ t[2] \in {"\n", " "}
IsNl(t) == t[1] = "ch" /\ t[2] = "\n"

(* String.prototype.trim *)
RECURSIVE TrimLeft(_)
TrimLeft(s) == IF s # <<>> /\ IsWs(Head(s)) THEN TrimLeft(Tail(s)) ELSE s
RECURSIVE TrimRight(_)
TrimRight(s) ==
    IF s # <<>> /\ IsWs(s[Len(s)]) THEN TrimRight(SubSeq(s, 1, Len(s) - 1)) ELSE s
Trim(s) == TrimRight(TrimLeft(s))

---------------------------------------------------------------------------
(* Byte strings *)
SegLen(g) == g[4] - g[3] + 1

RECURSIVE BLen(_)
BLen(bs) == IF bs = <<>> THEN 0 ELSE SegLen(Head(bs)) + BLen(Tail(bs))

Joins(g, h) == g[1] = h[1] /\ g[2] = h[2] /\ g[4] + 1 = h[3]

RECURSIVE Norm(_)
Norm(bs) ==
    IF Len(bs) < 2 THEN bs
    ELSE IF Joins(bs[1], bs[2])
         THEN Norm(<< <<bs[1][1], bs[1][2], bs[1][3], bs[2][4]>> >> \o SubSeq(bs, 3, Len(bs)))
         ELSE <<bs[1]>> \o Norm(Tail(bs))

(* Uint8Array.set of several pieces into one buffer *)
Cat(a, b) == Norm(a \o b)

RECURSIVE TakeB(_, _)
TakeB(bs, n) ==
    IF n <= 0 \/ bs = <<>> THEN <<>>
    ELSE LET g == Head(bs) IN
         IF SegLen(g) <= n THEN <<g>> \o TakeB(Tail(bs), n - SegLen(g))
         ELSE << <<g[1], g[2], g[3], g[3] + n - 1>> >>

RECURSIVE DropB(_, _)
DropB(bs, n) ==
    IF n <= 0 \/ bs = <<>> THEN bs
    ELSE LET g == Head(bs) IN
         IF SegLen(g) <= n THEN DropB(Tail(bs), n - SegLen(g))
         ELSE << <<g[1], g[2], g[3] + n, g[4]>> >> \o Tail(bs)

(* Uint8Array.prototype.slice(a, b), 0 <= a *)
Slice(bs, a, b) == TakeB(DropB(bs, a), b - a)
SliceFrom(bs, a) == DropB(bs, a)

Whole(kind, payload, n) == IF n = 0 THEN <<>> ELSE << <<kind, payload, 1, n>> >>

---------------------------------------------------------------------------
(* UTF-8 and base64 *)

(* Number of UTF-8 bytes of a lexeme *)
ChLen(s) ==
    CASE s \in {"BOM", "RC", "HS", "FENCE", "AES"} -> 3
      [] s \in {"128", "192", "256", "512"} -> 3
      [] s \in {"AES-GCM", "AES-CBC", "AES-CTR"} -> 7
      [] s \in {"mode:", "size:"} -> 5
      [] s = "##" -> 2
      [] s = "Data" -> 4
      [] s = "Encryption" -> 10
      [] s \in {"SecureNotes", "securenotes"} -> 11
      [] s = "INFO" -> 69
      [] OTHER -> 1

RECURSIVE TokLen(_)
RECURSIVE TextLen(_)
TokLen(t) ==
    CASE t[1] = "ch" -> ChLen(t[2])
      [] t[1] = "b64" -> 4 * ((BLen(t[2]) + 2) \div 3)
      [] OTHER -> 128 + TextLen(t[2].data[2])
TextLen(s) == IF s = <<>> THEN 0 ELSE TokLen(Head(s)) + TextLen(Tail(s))

(* new TextEncoder().encode(s): a lone surrogate is encoded as U+FFFD *)
RECURSIVE TextEncode(_)
TextEncode(s) ==
    IF s = <<>> THEN <<>>
    ELSE LET t == IF Head(s) = HS THEN RC ELSE Head(s)
         IN  Whole("u", t, TokLen(t)) \o TextEncode(Tail(s))

RECURSIVE DecodeSegs(_)
DecodeSegs(bs) ==
    IF bs = <<>> THEN <<>>
    ELSE LET g == Head(bs)
         IN  << IF g[1] = "u" /\ g[3] = 1 /\ g[4] = TokLen(g[2]) THEN g[2] ELSE RC >>
             \o DecodeSegs(Tail(bs))

(* new TextDecoder().decode(bytes): ignoreBOM is false, so a leading byte
   order mark is dropped; bytes that are no UTF-8 text become U+FFFD *)
TextDecode(bs) ==
    IF bs # <<>> /\ Head(bs) = <<"u", BOM, 1, 3>>
    THEN DecodeSegs(Tail(bs))
    ELSE DecodeSegs(bs)

Ok(v) == [ok |-> TRUE, val |-> v]
Err == [ok |-> FALSE, val |-> <<>>]

(* btoa over the bytes' binary string *)
arrayBufferToBase64(buffer) == IF buffer = <<>> THEN <<>> ELSE << <<"b64", buffer>> >>

(* Bytes a lexeme decodes to under atob, -1 when it is no base64 text *)
ChB64Len(s) ==
    CASE s \in {"128", "192", "256", "512", "AES"} -> 2
      [] s = "Data" -> 3
      [] OTHER -> -1

B64Valid(t) ==
    \/ t[1] = "b64"
    \/ t[1] = "ch" /\ (IsWs(t) \/ ChB64Len(t[2]) >= 0)

RECURSIVE B64Bytes(_)
B64Bytes(s) ==
    IF s = <<>> THEN <<>>
    ELSE LET t == Head(s)
         IN  (IF t[1] = "b64" THEN t[2]
              ELSE IF IsWs(t) THEN <<>>
              ELSE Whole("x", t[2], ChB64Len(t[2])))
             \o B64Bytes(Tail(s))

(* atob skips ASCII whitespace and throws on any other text that is not
   base64; each token is decoded by itself *)
base64ToArrayBuffer(base64) ==
    IF \A i \in 1..Len(base64) : B64Valid(base64[i])
    THEN Ok(Norm(B64Bytes(base64)))
    ELSE Err

---------------------------------------------------------------------------
(* Key derivation and the cipher primitives *)
SupportedModes == {"AES-CBC", "AES-CTR", "AES-GCM"}
SupportedSizes == {128, 256}

(* crypto.subtle.deriveBits, PBKDF2-SHA-256 with 100000 iterations: the
   first nbits of the output stream of (password, salt) *)
Pbkdf2Bits(pwBytes, salt, nbits) == Whole("k", <<pwBytes, salt>>, nbits \div 8)

pbdkf2(password, salt, keySize, aesMode) ==
    IF aesMode \in SupportedModes /\ keySize \in SupportedSizes
    THEN Ok(Pbkdf2Bits(TextEncode(password), salt, keySize))
    ELSE Err

deriveHmacKey(password, salt) == Pbkdf2Bits(TextEncode(password), salt, HmacKeyBits)

GcmSeal(key, iv, pt) == Whole("c", <<"AES-GCM", key, iv, pt>>, BLen(pt) + GcmTagLen)

GcmOpen(key, iv, blob) ==
    IF /\ Len(blob) = 1
       /\ blob[1][1] = "c"
       /\ blob = GcmSeal(key, iv, blob[1][2][4])
    THEN Ok(blob[1][2][4])
    ELSE Err

CtrEncrypt(key, iv, pt) == Whole("c", <<"AES-CTR", key, iv, pt>>, BLen(pt))

(* The key stream is XORed byte by byte: a prefix of the ciphertext gives a
   prefix of the plaintext, anything else gives other bytes *)
CtrDecrypt(key, iv, ct) ==
    IF ct = <<>> THEN <<>>
    ELSE IF /\ Len(ct) = 1
            /\ ct[1][1] = "c"
            /\ ct[1][2][1] = "AES-CTR" /\ ct[1][2][2] = key /\ ct[1][2][3] = iv
            /\ ct[1][3] = 1
         THEN TakeB(ct[1][2][4], ct[1][4])
         ELSE Whole("g", <<key, iv, ct>>, BLen(ct))

CbcLen(n) == BlockLen * ((n \div BlockLen) + 1)

CbcEncrypt(key, iv, pt) == Whole("c", <<"AES-CBC", key, iv, pt>>, CbcLen(BLen(pt)))

(* The outcomes of AES-CBC decryption: the plaintext for the ciphertext of
   this key and iv; for other bytes the padding check fails, or passes by
   chance and other bytes come out *)
CbcDecrypt(key, iv, ct) ==
    IF BLen(ct) = 0 \/ BLen(ct) % BlockLen # 0 \/ BLen(iv) # IvLen THEN {Err}
    ELSE IF /\ Len(ct) = 1
            /\ ct[1][1] = "c"
            /\ ct = CbcEncrypt(key, iv, ct[1][2][4])
         THEN {Ok(ct[1][2][4])}
         ELSE {Err, Ok(Whole("g", <<key, iv, ct>>, BLen(ct) - 1))}

(* Variants used to test the properties below *)
HmacSignKeyOnly(hmacKey, data) == Whole("h", <<hmacKey, <<>>>>, HmacTagLen)
HmacVerifySkipped(hmacKey, signature, data) == TRUE

HmacSign(hmacKey, data) == Whole("h", <<hmacKey, data>>, HmacTagLen)
HmacVerify(hmacKey, signature, data) == signature = HmacSign(hmacKey, data)

---------------------------------------------------------------------------
(* encryption.ts *)
Opts(mode, size) == [AesMode |-> mode, KeySize |-> size]

(* options.KeySize || 256 and options.AesMode || "AES-GCM" *)
KeySizeOf(options) == IF options.KeySize = 0 THEN DefaultKeySize ELSE options.KeySize
AesModeOf(options) == IF options.AesMode = "" THEN "AES-GCM" ELSE options.AesMode

IvLength(aesMode) == IF aesMode = "AES-GCM" THEN GcmIvLen ELSE IvLen
TagLength(aesMode) == IF aesMode = "AES-GCM" THEN GcmTagLen ELSE HmacTagLen

Result(v) == [ok |-> TRUE, val |-> v, why |-> ""]
Thrown(why) == [ok |-> FALSE, val |-> <<>>, why |-> why]

(* Variant used to test the properties below: the salt is not drawn *)
EncryptedBytes_sameSalt(text, passwd, options, saltId, ivId) ==
    LET keySize == KeySizeOf(options)
        aesMode == AesModeOf(options)
        salt == Whole("r", 0, SaltLen)
        key == pbdkf2(passwd, salt, keySize, aesMode).val
        iv == Whole("r", ivId, IvLength(aesMode))
        plaintext == TextEncode(text)
        sealed == GcmSeal(key, iv, plaintext)
        encryptedData ==
            IF aesMode = "AES-GCM" THEN Slice(sealed, 0, BLen(sealed) - GcmTagLen)
            ELSE IF aesMode = "AES-CTR" THEN CtrEncrypt(key, iv, plaintext)
            ELSE CbcEncrypt(key, iv, plaintext)
        hmacKey == deriveHmacKey(passwd, salt)
        dataToAuth == Cat(Cat(salt, iv), encryptedData)
        tag ==
            IF aesMode = "AES-GCM" THEN SliceFrom(sealed, BLen(sealed) - GcmTagLen)
            ELSE HmacSign(hmacKey, dataToAuth)
    IN  Cat(Cat(Cat(salt, iv), tag), encryptedData)

(* Variant used to test the properties below: the tag is put after the
   ciphertext *)
EncryptedBytes_tagLast(text, passwd, options, saltId, ivId) ==
    LET keySize == KeySizeOf(options)
        aesMode == AesModeOf(options)
        salt == Whole("r", saltId, SaltLen)
        key == pbdkf2(passwd, salt, keySize, aesMode).val
        iv == Whole("r", ivId, IvLength(aesMode))
        plaintext == TextEncode(text)
        sealed == GcmSeal(key, iv, plaintext)
        encryptedData ==
            IF aesMode = "AES-GCM" THEN Slice(sealed, 0, BLen(sealed) - GcmTagLen)
            ELSE IF aesMode = "AES-CTR" THEN CtrEncrypt(key, iv, plaintext)
            ELSE CbcEncrypt(key, iv, plaintext)
        hmacKey == deriveHmacKey(passwd, salt)
        dataToAuth == Cat(Cat(salt, iv), encryptedData)
        tag ==
            IF aesMode = "AES-GCM" THEN SliceFrom(sealed, BLen(sealed) - GcmTagLen)
            ELSE HmacSign(hmacKey, dataToAuth)
    IN  Cat(Cat(Cat(salt, iv), encryptedData), tag)

(* The salt and the iv are the draws numbered saltId and ivId of
   crypto.getRandomValues *)
EncryptedBytes(text, passwd, options, saltId, ivId) ==
    LET keySize == KeySizeOf(options)
        aesMode == AesModeOf(options)
        salt == Whole("r", saltId, SaltLen)
        key == pbdkf2(passwd, salt, keySize, aesMode).val
        iv == Whole("r", ivId, IvLength(aesMode))
        plaintext == TextEncode(text)
        sealed == GcmSeal(key, iv, plaintext)
        encryptedData ==
            IF aesMode = "AES-GCM" THEN Slice(sealed, 0, BLen(sealed) - GcmTagLen)
            ELSE IF aesMode = "AES-CTR" THEN CtrEncrypt(key, iv, plaintext)
            ELSE CbcEncrypt(key, iv, plaintext)
        hmacKey == deriveHmacKey(passwd, salt)
        dataToAuth == Cat(Cat(salt, iv), encryptedData)
        tag ==
            IF aesMode = "AES-GCM" THEN SliceFrom(sealed, BLen(sealed) - GcmTagLen)
            ELSE HmacSign(hmacKey, dataToAuth)
    IN  Cat(Cat(Cat(salt, iv), tag), encryptedData)

encryptData(text, passwd, options, saltId, ivId) ==
    IF pbdkf2(passwd, <<>>, KeySizeOf(options), AesModeOf(options)).ok
    THEN Result(arrayBufferToBase64(EncryptedBytes(text, passwd, options, saltId, ivId)))
    ELSE Thrown("key")

DecodeResults(rs) ==
    { IF r.ok THEN Result(TextDecode(r.val)) ELSE Thrown("decrypt") : r \in rs }

(* The set of outcomes of decryptData: one, except where AES-CBC's padding
   check decides *)
decryptData(encryptedBase64, passwd, options) ==
    LET keySize == KeySizeOf(options)
        aesMode == AesModeOf(options)
        decoded == base64ToArrayBuffer(encryptedBase64)
        encryptedBuffer == decoded.val
        salt == Slice(encryptedBuffer, 0, SaltLen)
        ivLength == IvLength(aesMode)
        iv == Slice(encryptedBuffer, SaltLen, SaltLen + ivLength)
        tagLength == TagLength(aesMode)
        tag == Slice(encryptedBuffer, SaltLen + ivLength, SaltLen + ivLength + tagLength)
        ciphertext == SliceFrom(encryptedBuffer, SaltLen + ivLength + tagLength)
        derived == pbdkf2(passwd, salt, keySize, aesMode)
        key == derived.val
        ciphertextWithTag == Cat(ciphertext, tag)
        hmacKey == deriveHmacKey(passwd, salt)
        dataToVerify == Cat(Cat(salt, iv), ciphertext)
        isValid == HmacVerify(hmacKey, tag, dataToVerify)
    IN  IF ~decoded.ok THEN {Thrown("base64")}
        ELSE IF ~derived.ok THEN {Thrown("key")}
        ELSE IF aesMode = "AES-GCM"
             THEN DecodeResults({GcmOpen(key, iv, ciphertextWithTag)})
        ELSE IF ~isValid THEN {Thrown("hmac")}
        ELSE IF aesMode = "AES-CTR"
             THEN DecodeResults({Ok(CtrDecrypt(key, iv, ciphertext))})
        ELSE DecodeResults(CbcDecrypt(key, iv, ciphertext))

---------------------------------------------------------------------------
(* encryption.ts: the calls that decryptData makes to crypto.subtle, in
   order, each with the algorithm and the bytes it is given *)
Call(fn, alg, data) == [fn |-> fn, alg |-> alg, data |-> data]

(* Variant used to test the properties below: the cipher runs before the
   signature is verified *)
decryptDataCalls_decryptFirst(encryptedBase64, passwd, options) ==
    LET aesMode == AesModeOf(options)
        decoded == base64ToArrayBuffer(encryptedBase64)
        encryptedBuffer == decoded.val
        salt == Slice(encryptedBuffer, 0, SaltLen)
        ivLength == IvLength(aesMode)
        iv == Slice(encryptedBuffer, SaltLen, SaltLen + ivLength)
        tagLength == TagLength(aesMode)
        tag == Slice(encryptedBuffer, SaltLen + ivLength, SaltLen + ivLength + tagLength)
        ciphertext == SliceFrom(encryptedBuffer, SaltLen + ivLength + tagLength)
        derived == pbdkf2(passwd, salt, KeySizeOf(options), aesMode)
    IN  IF ~decoded.ok THEN <<>>
        ELSE IF ~derived.ok THEN <<Call("deriveBits", "PBKDF2", salt)>>
        ELSE IF aesMode = "AES-GCM"
             THEN <<Call("deriveBits", "PBKDF2", salt),
                    Call("decrypt", aesMode, Cat(ciphertext, tag))>>
        ELSE <<Call("deriveBits", "PBKDF2", salt),
               Call("deriveBits", "PBKDF2", salt),
               Call("decrypt", aesMode, ciphertext),
               Call("verify", "HMAC", Cat(Cat(salt, iv), ciphertext))>>

decryptDataCalls(encryptedBase64, passwd, options) ==
    LET aesMode == AesModeOf(options)
        decoded == base64ToArrayBuffer(encryptedBase64)
        encryptedBuffer == decoded.val
        salt == Slice(encryptedBuffer, 0, SaltLen)
        ivLength == IvLength(aesMode)
        iv == Slice(encryptedBuffer, SaltLen, SaltLen + ivLength)
        tagLength == TagLength(aesMode)
        tag == Slice(encryptedBuffer, SaltLen + ivLength, SaltLen + ivLength + tagLength)
        ciphertext == SliceFrom(encryptedBuffer, SaltLen + ivLength + tagLength)
        derived == pbdkf2(passwd, salt, KeySizeOf(options), aesMode)
        hmacKey == deriveHmacKey(passwd, salt)
        dataToVerify == Cat(Cat(salt, iv), ciphertext)
        isValid == HmacVerify(hmacKey, tag, dataToVerify)
    IN  IF ~decoded.ok THEN <<>>
        ELSE IF ~derived.ok THEN <<Call("deriveBits", "PBKDF2", salt)>>
        ELSE IF aesMode = "AES-GCM"
             THEN <<Call("deriveBits", "PBKDF2", salt),
                    Call("decrypt", aesMode, Cat(ciphertext, tag))>>
        ELSE <<Call("deriveBits", "PBKDF2", salt),
               Call("deriveBits", "PBKDF2", salt),
               Call("verify", "HMAC", dataToVerify)>>
             \o (IF isValid THEN <<Call("decrypt", aesMode, ciphertext)>> ELSE <<>>)

---------------------------------------------------------------------------
(* utils.ts: the fenced format *)
PLUGIN_ID == "SecureNotes"

Min(S) == CHOOSE x \in S : \A y \in S : x <= y

(* First index after i whose token is not whitespace, Len(text) + 1 if none *)
SkipWs(text, i) ==
    LET S == {j \in (i + 1)..Len(text) : ~IsWs(text[j])}
    IN  IF S = {} THEN Len(text) + 1 ELSE Min(S)

(* Last index of the line that holds index j *)
LineEnd(text, j) ==
    LET S == {k \in j..Len(text) : IsNl(text[k])}
    IN  IF S = {} THEN Len(text) ELSE Min(S) - 1

(* The regular expression has the flag i: the name matches in any case *)
NameMatches(t, blockName) ==
    t[1] = "ch" /\ (t[2] = blockName \/ (blockName = "SecureNotes" /\ t[2] = "securenotes"))

(* new RegExp("```" + blockName + "[\\s\\S]*?```", "i").test(body) *)
isCodeblockPresent(text, blockName) ==
    \E i \in 1..Len(text) :
        /\ text[i] = FENCE
        /\ i + 1 <= Len(text)
        /\ NameMatches(text[i + 1], blockName)
        /\ \E j \in (i + 2)..Len(text) : text[j] = FENCE

NoMatch == [ok |-> FALSE, val |-> <<>>]
Match(v) == [ok |-> TRUE, val |-> v]

(* /mode:\s*([^\n]+)/ tried at index i *)
ModeAt(text, i) ==
    LET j == SkipWs(text, i)
    IN  IF text[i] # Ch("mode:") THEN NoMatch
        ELSE IF j <= Len(text) THEN Match(SubSeq(text, j, LineEnd(text, j)))
        ELSE IF \E p \in (i + 1)..Len(text) : text[p] = SP THEN Match(<<SP>>)
        ELSE NoMatch

IsDigits(t) == t[1] = "ch" /\ t[2] \in {"128", "192", "256", "512"}

(* /size:\s*(\d+)/ tried at index i *)
SizeAt(text, i) ==
    LET j == SkipWs(text, i)
    IN  IF text[i] = Ch("size:") /\ j <= Len(text) /\ IsDigits(text[j])
        THEN Match(<<text[j]>>)
        ELSE NoMatch

(* /##\s*Data\s+([\s\S]+)$/ tried at index i *)
DataAt(text, i) ==
    LET j == SkipWs(text, i)
        k == SkipWs(text, j)
    IN  IF text[i] # Ch("##") \/ j > Len(text) THEN NoMatch
        ELSE IF text[j] # Ch("Data") \/ k = j + 1 THEN NoMatch
        ELSE IF k <= Len(text) THEN Match(SubSeq(text, k, Len(text)))
        ELSE IF k > j + 2 THEN Match(<<text[Len(text)]>>)
        ELSE NoMatch

(* String.prototype.match without the flag g: the leftmost match *)
FirstMatch(text, At(_, _)) ==
    LET S == {i \in 1..Len(text) : At(text, i).ok}
    IN  IF S = {} THEN NoMatch ELSE At(text, Min(S))

(* The text of a mode name as a string *)
ModeStr(s) ==
    IF s = <<>> THEN ""
    ELSE IF Len(s) = 1 /\ s[1][1] = "ch" THEN s[1][2]
    ELSE "other"

(* parseInt of a run of digits *)
parseInt(s) ==
    CASE s = <<Ch("128")>> -> 128
      [] s = <<Ch("192")>> -> 192
      [] s = <<Ch("256")>> -> 256
      [] s = <<Ch("512")>> -> 512
      [] OTHER -> 0

(* Number.prototype.toString in a template literal *)
IntStr(n) ==
    CASE n = 128 -> "128"
      [] n = 192 -> "192"
      [] n = 256 -> "256"
      [] n = 512 -> "512"
      [] OTHER -> "undefined"

Null == [ok |-> FALSE, aesOptions |-> Opts("", 0), data |-> <<>>]

(* Variant used to test the properties below: the size line is not required *)
validateFormat_sizeOptional(text) ==
    LET modeMatch == FirstMatch(text, ModeAt)
        sizeMatch == FirstMatch(text, SizeAt)
        dataMatch == FirstMatch(text, DataAt)
    IN  IF ~modeMatch.ok \/ ~dataMatch.ok THEN Null
        ELSE [ok |-> TRUE,
              aesOptions |-> Opts(ModeStr(Trim(modeMatch.val)), parseInt(Trim(sizeMatch.val))),
              data |-> Trim(dataMatch.val)]

(* Variant used to test the properties below: the data is returned as
   matched, with the line end that follows it *)
validateFormat_untrimmed(text) ==
    LET modeMatch == FirstMatch(text, ModeAt)
        sizeMatch == FirstMatch(text, SizeAt)
        dataMatch == FirstMatch(text, DataAt)
    IN  IF ~modeMatch.ok \/ ~sizeMatch.ok \/ ~dataMatch.ok THEN Null
        ELSE [ok |-> TRUE,
              aesOptions |-> Opts(ModeStr(Trim(modeMatch.val)), parseInt(Trim(sizeMatch.val))),
              data |-> dataMatch.val]

validateFormat(text) ==
    LET modeMatch == FirstMatch(text, ModeAt)
        sizeMatch == FirstMatch(text, SizeAt)
        dataMatch == FirstMatch(text, DataAt)
    IN  IF ~modeMatch.ok \/ ~sizeMatch.ok \/ ~dataMatch.ok THEN Null
        ELSE [ok |-> TRUE,
              aesOptions |-> Opts(ModeStr(Trim(modeMatch.val)), parseInt(Trim(sizeMatch.val))),
              data |-> Trim(dataMatch.val)]

(* The template literal that encryptNote writes *)
secureNotesBlock(options, encryptedData) ==
    <<FENCE, Ch(PLUGIN_ID), NL, Ch("INFO"), NL, FENCE, NL, NL,
      Ch("##"), SP, Ch("Encryption"), NL,
      Ch("mode:"), SP, Ch(options.AesMode), NL,
      Ch("size:"), SP, Ch(IntStr(options.KeySize)), NL, NL,
      Ch("##"), SP, Ch("Data"), NL>> \o encryptedData \o <<NL>>

(* generateEncryptedNote: the same template, as a function of utils *)
generateEncryptedNote(options, encryptedData) ==
    <<FENCE, Ch(PLUGIN_ID), NL, Ch("INFO"), NL, FENCE, NL, NL,
      Ch("##"), SP, Ch("Encryption"), NL,
      Ch("mode:"), SP, Ch(options.AesMode), NL,
      Ch("size:"), SP, Ch(IntStr(options.KeySize)), NL, NL,
      Ch("##"), SP, Ch("Data"), NL>> \o encryptedData \o <<NL>>

(* isNoteLocked: the regular expression of isCodeblockPresent, built with
   PLUGIN_ID *)
isNoteLocked(text) == isCodeblockPresent(text, PLUGIN_ID)

---------------------------------------------------------------------------
(* utils.ts: the legacy JSON payload *)
ENCRYPTOR_VERSION == "1.0.0"

Str(x) == <<"string", x>>
Obj(options) == <<"object", options>>

payloadFormat(options, encrypted) ==
    [info |-> Str("This is an encrypted note, use Secure Notes plugin to unlock."),
     version |-> Str(ENCRYPTOR_VERSION),
     encryption |-> Obj(options),
     data |-> Str(encrypted)]

(* JSON.stringify(payload, null, 2) *)
JsonStringify(payload) == << <<"json", payload>> >>

(* JSON.parse: whitespace around the value is skipped *)
JsonParse(text) ==
    LET s == Trim(text)
    IN  IF Len(s) = 1 /\ s[1][1] = "json" THEN Match(s[1][2]) ELSE NoMatch

NullPayload == [ok |-> FALSE, encryption |-> Obj(Opts("", 0)), data |-> <<>>]

validatePayloadFormat(jsonString, encryptor_version) ==
    LET parsed == JsonParse(jsonString)
    IN  IF /\ parsed.ok
           /\ parsed.val.info[1] = "string"
           /\ parsed.val.version = Str(encryptor_version)
           /\ parsed.val.encryption[1] \in {"object", "null"}
           /\ parsed.val.data[1] = "string"
        THEN [ok |-> TRUE, encryption |-> parsed.val.encryption, data |-> parsed.val.data[2]]
        ELSE NullPayload

(* The same without the comparison of the version *)
validateOldFormat(jsonString) ==
    LET parsed == JsonParse(jsonString)
    IN  IF /\ parsed.ok
           /\ parsed.val.info[1] = "string"
           /\ parsed.val.encryption[1] \in {"object", "null"}
           /\ parsed.val.data[1] = "string"
        THEN [ok |-> TRUE, encryption |-> parsed.val.encryption, data |-> parsed.val.data[2]]
        ELSE NullPayload

(* decryptData called with the payload's encryption field: reading a
   property of null throws *)
decryptDataWith(encryptedBase64, passwd, encryption) ==
    IF encryption[1] # "object" THEN {Thrown("type")}
    ELSE decryptData(encryptedBase64, passwd, encryption[2])

---------------------------------------------------------------------------
(* Inputs *)
Configs == {Opts(m, k) : m \in SupportedModes, k \in SupportedSizes}
DefaultOptions == Opts("AES-GCM", 256)
Passwords == {<<Ch("p")>>, <<Ch("q")>>}
Plaintexts == {<<>>, <<Ch("a")>>, <<Ch("a"), NL, Ch("b")>>, <<BOM, Ch("a")>>}
(* The settings the controllers are run with: every mode and both sizes *)
Settings == {Opts("AES-GCM", 256), Opts("AES-CBC", 128), Opts("AES-CTR", 256)}
Bodies == {<<>>, <<Ch("a")>>, <<BOM, Ch("a")>>}
Notes == {"n1", "n2"}
NoNote == "none"
Fields == {"salt", "iv", "tag", "ciphertext"}
Changes == {"flip", "drop", "add"}

(* The note that encryptNote writes, without its mode line, its size line or
   its Data section *)
FormatDoc(keepMode, keepSize, keepData, options, encryptedData) ==
    <<FENCE, Ch(PLUGIN_ID), NL, Ch("INFO"), NL, FENCE, NL, NL,
      Ch("##"), SP, Ch("Encryption"), NL>>
    \o (IF keepMode THEN <<Ch("mode:"), SP, Ch(options.AesMode), NL>> ELSE <<>>)
    \o (IF keepSize THEN <<Ch("size:"), SP, Ch(IntStr(options.KeySize)), NL>> ELSE <<>>)
    \o <<NL>>
    \o (IF keepData THEN <<Ch("##"), SP, Ch("Data"), NL>> \o encryptedData \o <<NL>>
        ELSE <<>>)

SampleData(options) == encryptData(<<Ch("a")>>, <<Ch("p")>>, options, -2, -1).val

(* Notes in the fenced format that lack one of the three parts *)
MalformedNotes ==
    {FormatDoc(FALSE, TRUE, TRUE, DefaultOptions, SampleData(DefaultOptions)),
     FormatDoc(TRUE, FALSE, TRUE, DefaultOptions, SampleData(DefaultOptions)),
     FormatDoc(TRUE, TRUE, FALSE, DefaultOptions, SampleData(DefaultOptions))}


---------------------------------------------------------------------------
(* encryptData and decryptData applied to drawn inputs *)
LabIdle ==
    [pc |-> "off", P |-> <<>>, W |-> <<>>, C |-> DefaultOptions, env |-> <<>>,
     field |-> "none", W2 |-> <<>>, D |-> DefaultOptions, out |-> {}]

(* The number of random draws after which no encryption starts: the runs
   that follow the salts and ivs over several encryptions take more draws *)
DrawLimit == IF lab.pc \in {"fresh", "overlap"} THEN MaxFreshDraws ELSE MaxDraws

(* The byte range [from, to) of a field of the envelope under a mode *)
FieldFrom(f, aesMode) ==
    CASE f = "salt" -> 0
      [] f = "iv" -> SaltLen
      [] f = "tag" -> SaltLen + IvLength(aesMode)
      [] OTHER -> SaltLen + IvLength(aesMode) + TagLength(aesMode)

FieldTo(f, aesMode, total) ==
    CASE f = "salt" -> SaltLen
      [] f = "iv" -> SaltLen + IvLength(aesMode)
      [] f = "tag" -> SaltLen + IvLength(aesMode) + TagLength(aesMode)
      [] OTHER -> total

(* A field with some bit flipped, its last byte dropped, or a byte added *)
Changed(f, how, bytes) ==
    CASE how = "flip" -> Whole("x", <<f, bytes>>, BLen(bytes))
      [] how = "drop" -> TakeB(bytes, BLen(bytes) - 1)
      [] OTHER -> bytes \o Whole("y", f, 1)

ChangeField(envelope, f, how, aesMode) ==
    LET bytes == base64ToArrayBuffer(envelope).val
        a == FieldFrom(f, aesMode)
        b == FieldTo(f, aesMode, BLen(bytes))
    IN  arrayBufferToBase64(
            Cat(Cat(Slice(bytes, 0, a), Changed(f, how, Slice(bytes, a, b))),
                SliceFrom(bytes, b)))

LabEncrypt ==
    /\ lab.pc = "input"
    /\ rng + 2 <= DrawLimit
    /\ lab' = [lab EXCEPT !.pc = "sealed",
                          !.env = encryptData(lab.P, lab.W, lab.C, rng, rng + 1).val]
    /\ rng' = rng + 2
    /\ UNCHANGED <<variant, body, tagged, selected, aesOptions, noteId, isLocked,
                   upd, ops, report, view>>

LabChange(f, how) ==
    /\ lab.pc = "sealed"
    /\ lab.field = "none"
    /\ how # "add" => FieldTo(f, lab.C.AesMode, BLen(base64ToArrayBuffer(lab.env).val))
                          > FieldFrom(f, lab.C.AesMode)
    /\ lab' = [lab EXCEPT !.field = f,
                          !.env = ChangeField(lab.env, f, how, lab.C.AesMode)]
    /\ UNCHANGED <<variant, body, tagged, selected, aesOptions, noteId, isLocked,
                   upd, ops, rng, report, view>>

LabDecrypt(passwd, options) ==
    /\ lab.pc = "sealed"
    /\ lab' = [lab EXCEPT !.pc = "opened", !.W2 = passwd, !.D = options,
                          !.out = decryptData(lab.env, passwd, options)]
    /\ UNCHANGED <<variant, body, tagged, selected, aesOptions, noteId, isLocked,
                   upd, ops, rng, report, view>>

(* Notes whose recorded mode or key size is not supported *)
UnsupportedNotes ==
    {FormatDoc(TRUE, TRUE, TRUE, Opts("AES-XYZ", 256), SampleData(DefaultOptions)),
     FormatDoc(TRUE, TRUE, TRUE, Opts("AES-GCM", 512), SampleData(DefaultOptions))}

(* Notes whose data is no base64 text, or decodes to fewer bytes than the
   salt, the iv and the tag take *)
ShortData == arrayBufferToBase64(TakeB(base64ToArrayBuffer(SampleData(DefaultOptions)).val, 20))
BrokenEnvelopeNotes ==
    {FormatDoc(TRUE, TRUE, TRUE, DefaultOptions, <<Ch("!!")>>),
     FormatDoc(TRUE, TRUE, TRUE, DefaultOptions, ShortData)}

(* Notes sealed with the password p of which a ciphertext bit was flipped *)
TamperedNotes ==
    {FormatDoc(TRUE, TRUE, TRUE, c, ChangeField(SampleData(c), "ciphertext", "flip", c.AesMode)) :
        c \in Settings}

(* Notes that the controller of the fenced format finds in the store, other
   than plain bodies: written by an earlier session, edited by hand or synced *)
StoredNotes ==
    MalformedNotes \cup UnsupportedNotes \cup BrokenEnvelopeNotes \cup TamperedNotes

---------------------------------------------------------------------------
(* index.ts: state of the controllers *)
OpIds == 1..(IF MaxOps > MaxOverlap THEN MaxOps ELSE MaxOverlap)

(* The number of calls under way at once: MaxOverlap in the runs that follow
   overlapping calls, MaxOps in the others *)
OpLimit == IF lab.pc = "overlap" THEN MaxOverlap ELSE MaxOps

NotParsed == [encryption |-> Obj(DefaultOptions), data |-> <<>>]

IdleOp ==
    [kind |-> "idle", pc |-> "idle",
     note |-> NoNote, snap |-> <<>>,   \* the note whose body was read, and that body
     parsed |-> NotParsed, msg |-> "", tries |-> 0,
     opts |-> DefaultOptions, pw |-> <<>>, salt |-> 0]

(* A call takes the lowest free slot *)
Free(o) ==
    /\ o <= OpLimit
    /\ ops[o].kind = "idle" /\ \A q \in OpIds : q < o => ops[q].kind # "idle"

(* showToast(text), and the line logger.debug writes when a prompt returns
   null, with the operation that returned and its failed attempts *)
Silent == [text |-> "", by |-> "", tries |-> 0]
Toast(text) == [text |-> text, by |-> "", tries |-> 0]
Cancelled(op) == [text |-> "Password dialog cancelled", by |-> op.kind, tries |-> op.tries]

(* The store's record of a request that it rejected; the plugin shows nothing *)
StoreError == [text |-> "", by |-> "store", tries |-> 0]

NoView == [type |-> "none", ok |-> FALSE, html |-> <<>>]
LockedView == [type |-> "locked", ok |-> FALSE, html |-> <<>>]
PasswordResult(ok, html) == [type |-> "passwordResult", ok |-> ok, html |-> html]

(* markdownIt.render: an empty document renders to the empty string *)
render(text) == IF Trim(text) = <<>> THEN <<>> ELSE << <<"html", text>> >>

(* A note that the tag-based controller encrypted in an earlier session *)
LegacyNote ==
    JsonStringify(payloadFormat(DefaultOptions,
        encryptData(<<Ch("a")>>, <<Ch("p")>>, DefaultOptions, -2, -1).val))

Init ==
    /\ variant \in {"fenced", "tag"}
    /\ \E b \in Bodies \cup {LegacyNote}
                 \cup (IF variant = "fenced" THEN StoredNotes ELSE {}) :
          /\ body = [n \in Notes |-> IF n = "n1" THEN b ELSE <<Ch("b")>>]
          /\ tagged = [n \in Notes |-> n = "n1" /\ b = LegacyNote]
    /\ selected = "n1"
    /\ aesOptions = DefaultOptions
    /\ noteId = NoNote
    /\ isLocked = FALSE
    /\ upd = NoNote
    /\ ops = [o \in OpIds |-> IdleOp]
    /\ rng = 0
    /\ report = Silent
    /\ view = NoView
    /\ lab = LabIdle

InitCrypto ==
    /\ variant = "fenced"
    /\ body = [n \in Notes |-> <<>>]
    /\ tagged = [n \in Notes |-> FALSE]
    /\ selected = "n1"
    /\ aesOptions = DefaultOptions
    /\ noteId = NoNote
    /\ isLocked = FALSE
    /\ upd = NoNote
    /\ ops = [o \in OpIds |-> IdleOp]
    /\ rng = 0
    /\ report = Silent
    /\ view = NoView
    /\ lab \in {[LabIdle EXCEPT !.pc = "input", !.P = p, !.W = w, !.C = c] :
                   p \in Plaintexts, w \in Passwords, c \in Configs}

NextCrypto ==
    \/ LabEncrypt
    \/ \E f \in Fields, how \in Changes : LabChange(f, how)
    \/ \E w \in Passwords, c \in Configs : LabDecrypt(w, c)

SpecCrypto == InitCrypto /\ [][NextCrypto]_vars

---------------------------------------------------------------------------
(* index.ts, the controller of the fenced format *)

(* settings.onChange: updateSettings reads both settings into aesOptions *)
updateSettings(options) ==
    /\ options # aesOptions
    /\ aesOptions' = options
    /\ report' = Silent
    /\ view' = NoView
    /\ UNCHANGED <<variant, body, tagged, selected, noteId, isLocked, upd,
                   ops, rng, lab>>

(* The user selects another note *)
SelectNote(n) ==
    /\ n # selected
    /\ selected' = n
    /\ report' = Silent
    /\ view' = NoView
    /\ UNCHANGED <<variant, body, tagged, aesOptions, noteId, isLocked, upd,
                   ops, rng, lab>>

(* encryptNote(noteId) up to the password prompt *)
encryptNote(o, n) ==
    /\ IF isCodeblockPresent(body[n], PLUGIN_ID)
       THEN /\ report' = Toast("Note is already encrypted")
            /\ ops' = ops
       ELSE /\ ops' = [ops EXCEPT ![o] =
                  [IdleOp EXCEPT !.kind = "encrypt", !.pc = "prompt", !.note = n,
                                 !.snap = body[n],
                                 !.msg = "Enter password to Encrypt Note"]]
            /\ report' = Silent
    /\ view' = NoView
    /\ UNCHANGED <<variant, body, tagged, selected, aesOptions, noteId, isLocked,
                   upd, rng, lab>>

(* decryptNote(noteId) up to the first password prompt *)
decryptNote(o, n) ==
    /\ IF ~isCodeblockPresent(body[n], PLUGIN_ID)
       THEN /\ report' = Toast("Note is not encrypted")
            /\ ops' = ops
       ELSE IF ~validateFormat(body[n]).ok
       THEN /\ report' = Toast("Invalid format")
            /\ ops' = ops
       ELSE /\ ops' = [ops EXCEPT ![o] =
                  [IdleOp EXCEPT !.kind = "decrypt", !.pc = "prompt", !.note = n,
                                 !.snap = body[n],
                                 !.parsed = [encryption |-> Obj(validateFormat(body[n]).aesOptions),
                                             data |-> validateFormat(body[n]).data],
                                 !.msg = "Enter password to Decrypt Note"]]
            /\ report' = Silent
    /\ view' = NoView
    /\ UNCHANGED <<variant, body, tagged, selected, aesOptions, noteId, isLocked,
                   upd, rng, lab>>

(* The toolbar button *)
toggleLock(o) ==
    /\ variant = "fenced"
    /\ Free(o)
    /\ IF ~isCodeblockPresent(body[selected], PLUGIN_ID)
       THEN encryptNote(o, selected)
       ELSE decryptNote(o, selected)

(* encryptNote and decryptNote are exported: a call with the id of a note *)
encryptNote_call(o, n) == variant = "fenced" /\ Free(o) /\ encryptNote(o, n)
decryptNote_call(o, n) == variant = "fenced" /\ Free(o) /\ decryptNote(o, n)

(* Variant used to test the properties below: the caller goes on without a
   password *)
showPasswdDialog_nullGoesOn(o) ==
    /\ ops[o].pc = "prompt"
    /\ ops' = [ops EXCEPT ![o] = IdleOp]
    /\ report' = Cancelled(ops[o])
    /\ view' = NoView
    /\ body' = [body EXCEPT ![ops[o].note] = <<>>]
    /\ UNCHANGED <<variant, tagged, selected, aesOptions, noteId, isLocked,
                   upd, rng, lab>>

(* showPasswdDialog returns null: the dialog is dismissed or the password is
   empty; the caller returns *)
showPasswdDialog_null(o) ==
    /\ ops[o].pc = "prompt"
    /\ ops' = [ops EXCEPT ![o] = IdleOp]
    /\ report' = Cancelled(ops[o])
    /\ view' = NoView
    /\ UNCHANGED <<variant, body, tagged, selected, aesOptions, noteId, isLocked,
                   upd, rng, lab>>

(* encryptNote: a password is entered and encryptData is called; it reads
   its options and draws the salt before its first await *)
encryptNote_passwd(o, passwd) ==
    /\ variant = "fenced"
    /\ ops[o].kind = "encrypt" /\ ops[o].pc = "prompt"
    /\ rng + 2 <= DrawLimit
    /\ ops' = [ops EXCEPT ![o].pc = "encryptData", ![o].pw = passwd,
                          ![o].opts = aesOptions, ![o].salt = rng]
    /\ rng' = rng + 1
    /\ report' = Silent
    /\ view' = NoView
    /\ UNCHANGED <<variant, body, tagged, selected, aesOptions, noteId, isLocked,
                   upd, lab>>

(* encryptNote: encryptData draws the iv and returns; the block is built
   from the global aesOptions and written *)
encryptNote_put(o) ==
    /\ variant = "fenced"
    /\ ops[o].kind = "encrypt" /\ ops[o].pc = "encryptData"
    /\ LET encryptedData ==
               encryptData(ops[o].snap, ops[o].pw, ops[o].opts, ops[o].salt, rng).val
       IN  body' = [body EXCEPT ![ops[o].note] = secureNotesBlock(aesOptions, encryptedData)]
    /\ rng' = rng + 1
    /\ report' = Toast("Note encrypted successfully")
    /\ ops' = [ops EXCEPT ![o] = IdleOp]
    /\ view' = NoView
    /\ UNCHANGED <<variant, tagged, selected, aesOptions, noteId, isLocked,
                   upd, lab>>

(* Variant used to test the properties below: a failed verification of the
   HMAC gets a message of its own *)
decryptNote_passwdTellsCause(o, passwd) ==
    /\ variant = "fenced"
    /\ ops[o].kind = "decrypt" /\ ops[o].pc = "prompt"
    /\ \E r \in decryptDataWith(ops[o].parsed.data, passwd, ops[o].parsed.encryption) :
          IF r.ok
          THEN /\ body' = [body EXCEPT ![ops[o].note] = r.val]
               /\ report' = Toast("Note decrypted successfully")
               /\ ops' = [ops EXCEPT ![o] = IdleOp]
          ELSE /\ ops[o].tries < MaxTries
               /\ ops' = [ops EXCEPT ![o].msg = IF r.why = "hmac" /\ passwd = <<Ch("p")>>
                                                 THEN "The note was modified"
                                                 ELSE "Incorrect password, try again",
                                     ![o].tries = @ + 1]
               /\ body' = body
               /\ report' = Silent
    /\ view' = NoView
    /\ UNCHANGED <<variant, tagged, selected, aesOptions, noteId, isLocked,
                   upd, rng, lab>>

(* decryptNote: one turn of the loop with a password entered *)
decryptNote_passwd(o, passwd) ==
    /\ variant = "fenced"
    /\ ops[o].kind = "decrypt" /\ ops[o].pc = "prompt"
    /\ \E r \in decryptDataWith(ops[o].parsed.data, passwd, ops[o].parsed.encryption) :
          IF r.ok
          THEN /\ body' = [body EXCEPT ![ops[o].note] = r.val]
               /\ report' = Toast("Note decrypted successfully")
               /\ ops' = [ops EXCEPT ![o] = IdleOp]
          ELSE /\ ops[o].tries < MaxTries
               /\ ops' = [ops EXCEPT ![o].msg = "Incorrect password, try again",
                                     ![o].tries = @ + 1]
               /\ body' = body
               /\ report' = Silent
    /\ view' = NoView
    /\ UNCHANGED <<variant, tagged, selected, aesOptions, noteId, isLocked,
                   upd, rng, lab>>

(* decryptNote: one turn of the loop in which decryptData resolves and
   joplin.data.put rejects; the rejection is thrown inside the try *)
decryptNote_putRejects(o, passwd) ==
    /\ variant = "fenced"
    /\ ops[o].kind = "decrypt" /\ ops[o].pc = "prompt"
    /\ \E r \in decryptDataWith(ops[o].parsed.data, passwd, ops[o].parsed.encryption) : r.ok
    /\ ops[o].tries < MaxTries
    /\ ops' = [ops EXCEPT ![o].msg = "Incorrect password, try again",
                          ![o].tries = @ + 1]
    /\ report' = StoreError
    /\ view' = NoView
    /\ UNCHANGED <<variant, body, tagged, selected, aesOptions, noteId, isLocked,
                   upd, rng, lab>>

(* contentScripts.onMessage, a message of type "password" *)
onMessage_password(msg) ==
    /\ variant = "fenced"
    /\ LET parsed == validateFormat(body[selected])
       IN  IF ~parsed.ok
           THEN view' = PasswordResult(FALSE, <<>>)
           ELSE \E r \in decryptData(parsed.data, msg, parsed.aesOptions) :
                   view' = IF r.ok THEN PasswordResult(TRUE, render(r.val))
                           ELSE PasswordResult(FALSE, <<>>)
    /\ report' = Silent
    /\ UNCHANGED <<variant, body, tagged, selected, aesOptions, noteId, isLocked,
                   upd, ops, rng, lab>>

NextFenced ==
    \/ \E c \in Settings : updateSettings(c)
    \/ \E n \in Notes : SelectNote(n)
    \/ \E o \in OpIds : toggleLock(o)
    \/ \E o \in OpIds : encryptNote_call(o, selected)
    \/ \E o \in OpIds : decryptNote_call(o, selected)
    \/ \E o \in OpIds : showPasswdDialog_null(o)
    \/ \E o \in OpIds, w \in Passwords : encryptNote_passwd(o, w)
    \/ \E o \in OpIds : encryptNote_put(o)
    \/ \E o \in OpIds, w \in Passwords : decryptNote_passwd(o, w)
    \/ \E o \in OpIds, w \in Passwords : decryptNote_putRejects(o, w)
    \/ \E w \in Passwords : onMessage_password(w)

InitFenced == Init /\ variant = "fenced"

(* The controller of the fenced format on two plain notes, run over several
   encryptions *)
InitFresh ==
    /\ variant = "fenced"
    /\ body = [n \in Notes |-> <<Ch("a")>>]
    /\ tagged = [n \in Notes |-> FALSE]
    /\ selected = "n1"
    /\ aesOptions \in Settings
    /\ noteId = NoNote
    /\ isLocked = FALSE
    /\ upd = NoNote
    /\ ops = [o \in OpIds |-> IdleOp]
    /\ rng = 0
    /\ report = Silent
    /\ view = NoView
    /\ lab = [LabIdle EXCEPT !.pc = "fresh"]

(* The setting stays the one of the start *)
NextFresh ==
    \/ \E n \in Notes : SelectNote(n)
    \/ \E o \in OpIds : toggleLock(o)
    \/ \E o \in OpIds : showPasswdDialog_null(o)
    \/ \E o \in OpIds, w \in Passwords : encryptNote_passwd(o, w)
    \/ \E o \in OpIds : encryptNote_put(o)
    \/ \E o \in OpIds, w \in Passwords : decryptNote_passwd(o, w)

SpecFresh == InitFresh /\ [][NextFresh]_vars

SpecFenced == InitFenced /\ [][NextFenced]_vars

---------------------------------------------------------------------------
(* index.ts, the tag-based controller *)

FreeSlots == {o \in OpIds : o <= OpLimit /\ ops[o].kind = "idle"}

(* onActivationCheck: updateNoteInfo up to its call of hasTag *)
onActivationCheck ==
    /\ variant = "tag"
    /\ upd = NoNote
    /\ noteId' = selected
    /\ upd' = selected
    /\ report' = Silent
    /\ view' = NoView
    /\ UNCHANGED <<variant, body, tagged, selected, aesOptions, isLocked,
                   ops, rng, lab>>

(* ViewNote up to its first password prompt, called with isLocked true *)
ViewNote(o) ==
    LET parsed == validatePayloadFormat(body[noteId], ENCRYPTOR_VERSION)
    IN  IF ~parsed.ok
        THEN /\ report' = Toast("Invalid note format or version mismatch")
             /\ ops' = ops
        ELSE /\ report' = Silent
             /\ ops' = [ops EXCEPT ![o] =
                   [IdleOp EXCEPT !.kind = "view", !.pc = "prompt",
                                  !.note = noteId, !.snap = body[noteId],
                                  !.parsed = [encryption |-> parsed.encryption,
                                              data |-> parsed.data],
                                  !.msg = "Enter password to View Note"]]

(* updateNoteInfo from the answer of hasTag on, and the rest of
   onActivationCheck *)
updateNoteInfo ==
    /\ variant = "tag"
    /\ upd # NoNote
    /\ isLocked' = tagged[upd]
    /\ upd' = NoNote
    /\ IF tagged[upd]
       THEN /\ FreeSlots # {}
            /\ ViewNote(Min(FreeSlots))
            /\ view' = LockedView
       ELSE /\ ops' = ops
            /\ report' = Silent
            /\ view' = NoView
    /\ UNCHANGED <<variant, body, tagged, selected, aesOptions, noteId, rng, lab>>

(* encryptNote() up to the password prompt *)
encryptNoteTag(o) ==
    /\ variant = "tag"
    /\ Free(o)
    /\ IF isLocked
       THEN /\ report' = Toast("Note is already encrypted")
            /\ ops' = ops
       ELSE /\ report' = Silent
            /\ ops' = [ops EXCEPT ![o] =
                  [IdleOp EXCEPT !.kind = "encrypt", !.pc = "prompt",
                                 !.msg = "Enter password to Encrypt Note"]]
    /\ view' = NoView
    /\ UNCHANGED <<variant, body, tagged, selected, aesOptions, noteId, isLocked,
                   upd, rng, lab>>

(* encryptNote(): a password is entered, the body of noteId is read and
   encryptData is called; the read fails while noteId is null *)
encryptNoteTag_passwd(o, passwd) ==
    /\ variant = "tag"
    /\ ops[o].kind = "encrypt" /\ ops[o].pc = "prompt"
    /\ IF noteId = NoNote
       THEN /\ ops' = [ops EXCEPT ![o] = IdleOp]
            /\ rng' = rng
       ELSE /\ rng + 2 <= DrawLimit
            /\ ops' = [ops EXCEPT ![o].pc = "encryptData", ![o].pw = passwd,
                                  ![o].note = noteId, ![o].snap = body[noteId],
                                  ![o].opts = aesOptions, ![o].salt = rng]
            /\ rng' = rng + 1
    /\ report' = Silent
    /\ view' = NoView
    /\ UNCHANGED <<variant, body, tagged, selected, aesOptions, noteId, isLocked,
                   upd, lab>>

(* encryptNote(): encryptData returns; the payload is built from the global
   aesOptions and written to noteId, the tag is added, the view refreshed *)
encryptNoteTag_put(o) ==
    /\ variant = "tag"
    /\ ops[o].kind = "encrypt" /\ ops[o].pc = "encryptData"
    /\ LET encrypted ==
               encryptData(ops[o].snap, ops[o].pw, ops[o].opts, ops[o].salt, rng).val
       IN  body' = [body EXCEPT ![noteId] =
                       JsonStringify(payloadFormat(aesOptions, encrypted))]
    /\ tagged' = [tagged EXCEPT ![noteId] = TRUE]
    /\ selected' = noteId
    /\ rng' = rng + 1
    /\ report' = Toast("Note encrypted successfully.")
    /\ ops' = [ops EXCEPT ![o] = IdleOp]
    /\ view' = NoView
    /\ UNCHANGED <<variant, aesOptions, noteId, isLocked, upd, lab>>

(* decryptNote() up to the first password prompt *)
decryptNoteTag(o) ==
    /\ variant = "tag"
    /\ Free(o)
    /\ LET parsed == validatePayloadFormat(body[noteId], ENCRYPTOR_VERSION)
       IN  IF ~isLocked
           THEN /\ report' = Toast("Note is not encrypted")
                /\ ops' = ops
           ELSE IF ~parsed.ok
           THEN /\ report' = Toast("Invalid note format or version mismatch")
                /\ ops' = ops
           ELSE /\ report' = Silent
                /\ ops' = [ops EXCEPT ![o] =
                      [IdleOp EXCEPT !.kind = "decrypt", !.pc = "prompt",
                                     !.note = noteId, !.snap = body[noteId],
                                     !.parsed = [encryption |-> parsed.encryption,
                                                 data |-> parsed.data],
                                     !.msg = "Enter password to Decrypt Note"]]
    /\ view' = NoView
    /\ UNCHANGED <<variant, body, tagged, selected, aesOptions, noteId, isLocked,
                   upd, rng, lab>>

(* decryptNote(): one turn of the loop with a password entered *)
decryptNoteTag_passwd(o, passwd) ==
    /\ variant = "tag"
    /\ ops[o].kind = "decrypt" /\ ops[o].pc = "prompt"
    /\ \E r \in decryptDataWith(ops[o].parsed.data, passwd, ops[o].parsed.encryption) :
          IF r.ok
          THEN /\ body' = [body EXCEPT ![noteId] = r.val]
               /\ tagged' = [tagged EXCEPT ![noteId] = FALSE]
               /\ selected' = noteId
               /\ report' = Toast("Note decrypted successfully")
               /\ ops' = [ops EXCEPT ![o] = IdleOp]
          ELSE /\ ops[o].tries < MaxTries
               /\ ops' = [ops EXCEPT ![o].msg = "Incorrect password, try again",
                                     ![o].tries = @ + 1]
               /\ report' = Silent
               /\ UNCHANGED <<body, tagged, selected>>
    /\ view' = NoView
    /\ UNCHANGED <<variant, aesOptions, noteId, isLocked, upd, rng, lab>>

(* decryptNote(): one turn of the loop in which decryptData resolves and
   joplin.data.put rejects; the rejection is thrown inside the try *)
decryptNoteTag_putRejects(o, passwd) ==
    /\ variant = "tag"
    /\ ops[o].kind = "decrypt" /\ ops[o].pc = "prompt"
    /\ \E r \in decryptDataWith(ops[o].parsed.data, passwd, ops[o].parsed.encryption) : r.ok
    /\ ops[o].tries < MaxTries
    /\ ops' = [ops EXCEPT ![o].msg = "Incorrect password, try again",
                          ![o].tries = @ + 1]
    /\ report' = StoreError
    /\ view' = NoView
    /\ UNCHANGED <<variant, body, tagged, selected, aesOptions, noteId, isLocked,
                   upd, rng, lab>>

(* Variant used to test the properties below: the view saves what it shows *)
ViewNote_passwdSaves(o, passwd) ==
    /\ variant = "tag"
    /\ ops[o].kind = "view" /\ ops[o].pc = "prompt"
    /\ \E r \in decryptDataWith(ops[o].parsed.data, passwd, ops[o].parsed.encryption) :
          IF r.ok
          THEN /\ view' = PasswordResult(TRUE, render(r.val))
               /\ body' = [body EXCEPT ![noteId] = r.val]
               /\ ops' = [ops EXCEPT ![o] = IdleOp]
          ELSE /\ ops[o].tries < MaxTries
               /\ ops' = [ops EXCEPT ![o].msg = "Incorrect password, try again",
                                     ![o].tries = @ + 1]
               /\ view' = NoView
               /\ body' = body
    /\ report' = Silent
    /\ UNCHANGED <<variant, tagged, selected, aesOptions, noteId, isLocked,
                   upd, rng, lab>>

(* ViewNote: one turn of the loop with a password entered *)
ViewNote_passwd(o, passwd) ==
    /\ variant = "tag"
    /\ ops[o].kind = "view" /\ ops[o].pc = "prompt"
    /\ \E r \in decryptDataWith(ops[o].parsed.data, passwd, ops[o].parsed.encryption) :
          IF r.ok
          THEN /\ view' = PasswordResult(TRUE, render(r.val))
               /\ ops' = [ops EXCEPT ![o] = IdleOp]
          ELSE /\ ops[o].tries < MaxTries
               /\ ops' = [ops EXCEPT ![o].msg = "Incorrect password, try again",
                                     ![o].tries = @ + 1]
               /\ view' = NoView
    /\ report' = Silent
    /\ UNCHANGED <<variant, body, tagged, selected, aesOptions, noteId, isLocked,
                   upd, rng, lab>>

(* The toolbar button: updateNoteInfo registers its command again whenever
   isLocked changes, with decryptNote when locked and encryptNote otherwise *)
toggleLockTag(o) ==
    IF isLocked THEN decryptNoteTag(o) ELSE encryptNoteTag(o)

NextTag ==
    \/ \E c \in Settings : updateSettings(c)
    \/ \E n \in Notes : SelectNote(n)
    \/ onActivationCheck
    \/ updateNoteInfo
    \/ \E o \in OpIds : toggleLockTag(o)
    \/ \E o \in OpIds : encryptNoteTag(o)
    \/ \E o \in OpIds : decryptNoteTag(o)
    \/ \E o \in OpIds : showPasswdDialog_null(o)
    \/ \E o \in OpIds, w \in Passwords : encryptNoteTag_passwd(o, w)
    \/ \E o \in OpIds : encryptNoteTag_put(o)
    \/ \E o \in OpIds, w \in Passwords : decryptNoteTag_passwd(o, w)
    \/ \E o \in OpIds, w \in Passwords : decryptNoteTag_putRejects(o, w)
    \/ \E o \in OpIds, w \in Passwords : ViewNote_passwd(o, w)

(* encryptNote() as above when the tag store rejects the post: addTag
   catches the error and the call goes on *)
encryptNoteTag_putTagFails(o) ==
    /\ variant = "tag"
    /\ ops[o].kind = "encrypt" /\ ops[o].pc = "encryptData"
    /\ LET encrypted ==
               encryptData(ops[o].snap, ops[o].pw, ops[o].opts, ops[o].salt, rng).val
       IN  body' = [body EXCEPT ![noteId] =
                       JsonStringify(payloadFormat(aesOptions, encrypted))]
    /\ selected' = noteId
    /\ rng' = rng + 1
    /\ report' = Toast("Note encrypted successfully.")
    /\ ops' = [ops EXCEPT ![o] = IdleOp]
    /\ view' = NoView
    /\ UNCHANGED <<variant, tagged, aesOptions, noteId, isLocked, upd, lab>>

(* decryptNote() with the right password when the tag store rejects the
   delete: removeTag catches the error and the call goes on *)
decryptNoteTag_passwdTagFails(o, passwd) ==
    /\ variant = "tag"
    /\ ops[o].kind = "decrypt" /\ ops[o].pc = "prompt"
    /\ \E r \in decryptDataWith(ops[o].parsed.data, passwd, ops[o].parsed.encryption) :
          /\ r.ok
          /\ body' = [body EXCEPT ![noteId] = r.val]
    /\ selected' = noteId
    /\ report' = Toast("Note decrypted successfully")
    /\ ops' = [ops EXCEPT ![o] = IdleOp]
    /\ view' = NoView
    /\ UNCHANGED <<variant, tagged, aesOptions, noteId, isLocked, upd, rng, lab>>

InitTag == Init /\ variant = "tag"

SpecTag == InitTag /\ [][NextTag]_vars

(* The tag-based controller over a tag store that may reject a request *)
NextTagStore ==
    \/ NextTag
    \/ \E o \in OpIds : encryptNoteTag_putTagFails(o)
    \/ \E o \in OpIds, w \in Passwords : decryptNoteTag_passwdTagFails(o, w)

SpecTagStore == InitTag /\ [][NextTagStore]_vars

(* Two Encrypt commands on the selected note, the second given while the
   first waits at its password prompt: every Encrypt is invoked before a
   password was entered. The settings stay the ones of the start. *)
toggleLock_overlapping(o) ==
    /\ ~isCodeblockPresent(body[selected], PLUGIN_ID) => rng = 0
    /\ toggleLock(o)

toggleLockTag_overlapping(o) ==
    /\ ~isLocked => rng = 0
    /\ toggleLockTag(o)

InitOverlap ==
    /\ variant \in {"fenced", "tag"}
    /\ body = [n \in Notes |-> IF n = "n1" THEN <<Ch("a")>> ELSE <<Ch("b")>>]
    /\ tagged = [n \in Notes |-> FALSE]
    /\ selected = "n1"
    /\ aesOptions \in Settings
    /\ noteId = NoNote
    /\ isLocked = FALSE
    /\ upd = NoNote
    /\ ops = [o \in OpIds |-> IdleOp]
    /\ rng = 0
    /\ report = Silent
    /\ view = NoView
    /\ lab = [LabIdle EXCEPT !.pc = "overlap"]

NextOverlap ==
    \/ \E o \in OpIds : toggleLock_overlapping(o)
    \/ \E o \in OpIds : toggleLockTag_overlapping(o)
    \/ onActivationCheck
    \/ updateNoteInfo
    \/ \E o \in OpIds : showPasswdDialog_null(o)
    \/ \E o \in OpIds, w \in Passwords : encryptNote_passwd(o, w)
    \/ \E o \in OpIds : encryptNote_put(o)
    \/ \E o \in OpIds, w \in Passwords : decryptNote_passwd(o, w)
    \/ \E o \in OpIds, w \in Passwords : encryptNoteTag_passwd(o, w)
    \/ \E o \in OpIds : encryptNoteTag_put(o)
    \/ \E o \in OpIds, w \in Passwords : decryptNoteTag_passwd(o, w)

SpecOverlap == InitOverlap /\ [][NextOverlap]_vars

---------------------------------------------------------------------------
(* contentScripts/runtime.js: the secure view, with the password handler of
   index.ts as its host. In these runs view is the document of the viewer:
   whether it holds the markup of the view, whether the view is unlocked, and
   the content of its content element. lab.pc names the script that runs. *)
ViewScripts == {"runtime.js", "part_005"}

Unlocked(content) == [type |-> "unlocked", ok |-> TRUE, html |-> content]

(* The markup that the renderer produces for a note: the view in its locked
   state when the note holds the fence, no view otherwise *)
FreshView(text) == IF isCodeblockPresent(text, PLUGIN_ID) THEN LockedView ELSE NoView

(* shakeInput(input, placeholderMsg), and the TypeError of a handler that
   finds no view in the document *)
Shake(text) == [text |-> text, by |-> "view", tries |-> 0]
ViewError == [text |-> "TypeError", by |-> "view", tries |-> 0]

(* innerHTML = false shows the text false *)
FalseText == <<Ch("false")>>

(* The reply of the password handler of index.ts for the selected note *)
onMessage_reply(text, msg) ==
    LET parsed == validateFormat(text)
    IN  IF ~parsed.ok THEN {PasswordResult(FALSE, <<>>)}
        ELSE {IF r.ok THEN PasswordResult(TRUE, render(r.val))
                      ELSE PasswordResult(FALSE, <<>>) :
                 r \in decryptData(parsed.data, msg, parsed.aesOptions)}

(* What the user can type into a password field *)
TypedStrings ==
    {<<>>, <<SP>>, <<Ch("p")>>, <<Ch("q")>>, <<SP, Ch("p")>>, <<Ch("p"), SP>>}

(* Passwords that showPasswdDialog returned to Encrypt: any text that is not
   empty, as typed *)
DialogPasswords == {<<Ch("p")>>, <<SP, Ch("p")>>}

(* handleSubmit up to its await: the input is trimmed, an empty password is
   refused, the message is posted. The call keeps the text as typed (snap),
   the password it sent (pw) and the note that was displayed (note). *)
handleSubmit(o, typed) ==
    /\ lab.pc \in ViewScripts
    /\ view.type = "locked"
    /\ Free(o)
    /\ LET password == Trim(typed)
       IN  IF password = <<>>
           THEN /\ ops' = ops
                /\ report' = Shake("Password cannot be empty")
           ELSE /\ ops' = [ops EXCEPT ![o] =
                      [IdleOp EXCEPT !.kind = "submit", !.pc = "posted",
                                     !.note = selected, !.snap = typed,
                                     !.pw = password]]
                /\ report' = Silent
    /\ UNCHANGED <<variant, body, tagged, selected, aesOptions, noteId, isLocked,
                   upd, rng, view, lab>>

(* The host handles the message of the call o: the reply has msg false, or
   the rendered text (kept in parsed.data) *)
onMessage_passwordOf(o) ==
    /\ lab.pc \in ViewScripts
    /\ ops[o].kind = "submit" /\ ops[o].pc = "posted"
    /\ \E reply \in onMessage_reply(body[selected], ops[o].pw) :
          ops' = [ops EXCEPT ![o].pc = "replied",
                             ![o].msg = IF reply.ok THEN "html" ELSE "false",
                             ![o].parsed = [encryption |-> Obj(DefaultOptions),
                                            data |-> reply.html]]
    /\ report' = Silent
    /\ UNCHANGED <<variant, body, tagged, selected, aesOptions, noteId, isLocked,
                   upd, rng, view, lab>>

(* handleSubmit from the reply on. runtime.js tests the reply's type for
   "error", which no reply of the host has, and then shows the reply's msg;
   the script of part_005 tests !msg, which holds of false and of the empty
   string. Both act on the document as it is now. *)
handleSubmit_resumes(o) ==
    /\ lab.pc \in ViewScripts
    /\ ops[o].kind = "submit" /\ ops[o].pc = "replied"
    /\ ops' = [ops EXCEPT ![o] = IdleOp]
    /\ LET msg == IF ops[o].msg = "false" THEN FalseText ELSE ops[o].parsed.data
           falsy == ops[o].msg = "false" \/ ops[o].parsed.data = <<>>
       IN  IF lab.pc = "part_005" /\ falsy
           THEN /\ view' = view
                /\ report' = IF view.type = "none" THEN ViewError
                              ELSE Shake("Incorrect password, try again")
           ELSE IF view.type = "none"
           THEN /\ view' = view
                /\ report' = ViewError
           ELSE /\ view' = Unlocked(msg)
                /\ report' = Silent
    /\ UNCHANGED <<variant, body, tagged, selected, aesOptions, noteId, isLocked,
                   upd, rng, lab>>

(* Another note is displayed: the renderer writes its markup and dispatches
   joplin-noteDidUpdate, on which runtime.js calls resetView *)
noteDidUpdate(n) ==
    /\ lab.pc \in ViewScripts
    /\ n # selected
    /\ selected' = n
    /\ view' = FreshView(body[n])
    /\ report' = Silent
    /\ UNCHANGED <<variant, body, tagged, aesOptions, noteId, isLocked, upd,
                   ops, rng, lab>>

(* n1 is a note that Encrypt wrote; n2 is another such note, a note with
   the fence and no valid format, or a plain note *)
InitView ==
    /\ variant = "fenced"
    /\ \E B \in {<<>>, <<Ch("a")>>}, w \in DialogPasswords, c \in Settings,
          b2 \in {secureNotesBlock(DefaultOptions,
                       encryptData(<<Ch("b")>>, <<Ch("p")>>, DefaultOptions, -4, -3).val),
                  FormatDoc(TRUE, FALSE, TRUE, DefaultOptions, SampleData(DefaultOptions)),
                  <<Ch("b")>>} :
          body = [n \in Notes |->
                    IF n = "n1" THEN secureNotesBlock(c, encryptData(B, w, c, -2, -1).val)
                    ELSE b2]
    /\ tagged = [n \in Notes |-> FALSE]
    /\ selected = "n1"
    /\ aesOptions = DefaultOptions
    /\ noteId = NoNote
    /\ isLocked = FALSE
    /\ upd = NoNote
    /\ ops = [o \in OpIds |-> IdleOp]
    /\ rng = 0
    /\ report = Silent
    /\ view = LockedView
    /\ lab \in {[LabIdle EXCEPT !.pc = s] : s \in ViewScripts}

NextView ==
    \/ \E o \in OpIds, t \in TypedStrings : handleSubmit(o, t)
    \/ \E o \in OpIds : onMessage_passwordOf(o)
    \/ \E o \in OpIds : handleSubmit_resumes(o)
    \/ \E n \in Notes : noteDidUpdate(n)

SpecView == InitView /\ [][NextView]_vars

---------------------------------------------------------------------------
(* Both controllers of index.ts *)
Next == NextFenced \/ NextTag

Spec == Init /\ [][Next]_vars

---------------------------------------------------------------------------
(* pbdkf2 and deriveHmacKey applied to drawn passwords and salts *)
KeyPasswords == Passwords \cup {<<>>, <<Ch("p"), Ch("q")>>}
Salts == {Whole("r", i, SaltLen) : i \in 0..(MaxSalts - 1)}

(* lab.W is the password, lab.env the salt, lab.C the key size and the mode *)
InitKeys ==
    /\ variant = "fenced"
    /\ body = [n \in Notes |-> <<>>]
    /\ tagged = [n \in Notes |-> FALSE]
    /\ selected = "n1"
    /\ aesOptions = DefaultOptions
    /\ noteId = NoNote
    /\ isLocked = FALSE
    /\ upd = NoNote
    /\ ops = [o \in OpIds |-> IdleOp]
    /\ rng = 0
    /\ report = Silent
    /\ view = NoView
    /\ lab \in {[LabIdle EXCEPT !.pc = "keys", !.W = w, !.env = s, !.C = c] :
                   w \in KeyPasswords, s \in Salts, c \in Configs}

(* The key bytes that importKey is handed by pbdkf2 and by deriveHmacKey *)
LabDeriveKeys ==
    /\ lab.pc = "keys"
    /\ lab' = [lab EXCEPT !.pc = "derived",
                          !.out = {[cipher |-> pbdkf2(lab.W, lab.env, lab.C.KeySize,
                                                      lab.C.AesMode).val,
                                    hmac |-> deriveHmacKey(lab.W, lab.env)]}]
    /\ UNCHANGED <<variant, body, tagged, selected, aesOptions, noteId, isLocked,
                   upd, ops, rng, report, view>>

NextKeys == LabDeriveKeys

SpecKeys == InitKeys /\ [][NextKeys]_vars

---------------------------------------------------------------------------
(* The functions of utils applied to drawn documents *)

(* Texts of at most n tokens over the alphabet A *)
RECURSIVE TextsUpTo(_, _)
TextsUpTo(A, n) ==
    IF n = 0 THEN {<<>>}
    ELSE LET T == TextsUpTo(A, n - 1)
         IN  T \cup {Append(t, a) : t \in {x \in T : Len(x) = n - 1}, a \in A}

FenceDocs == TextsUpTo({FENCE, Ch(PLUGIN_ID), NL, Ch("x")}, MaxDocLen)

FormatDocs ==
    {FormatDoc(m, s, d, c, SampleData(c)) : m \in BOOLEAN, s \in BOOLEAN, d \in BOOLEAN,
                                           c \in Configs}

(* JSON documents: the payload as the tag-based controller writes it, and
   the same with the encryption field null, another version, or a number
   where the data string belongs *)
JsonNull == <<"null", Opts("", 0)>>
LegacyDocs ==
    {JsonStringify([payloadFormat(c, SampleData(c)) EXCEPT
                        !.encryption = e, !.version = v, !.data = d]) :
        c \in {DefaultOptions},
        e \in {Obj(DefaultOptions), Obj(Opts("AES-XYZ", 512)), JsonNull},
        v \in {Str(ENCRYPTOR_VERSION), Str("0.9.0")},
        d \in {Str(SampleData(DefaultOptions)), <<"number", <<>>>>}}

(* Base64 strings that are not empty: envelopes, other bytes, and strings
   of the base64 alphabet that are words of the format too *)
Base64Strings ==
    {SampleData(c) : c \in Settings}
        \cup {arrayBufferToBase64(Whole("x", 0, n)) : n \in 1..3}
        \cup {<<Ch("Data")>>, <<Ch("128")>>, <<Ch("AES")>>}

UtilsDocs == FenceDocs \cup FormatDocs \cup UnsupportedNotes \cup LegacyDocs

InitUtils ==
    /\ variant = "fenced"
    /\ body = [n \in Notes |-> <<>>]
    /\ tagged = [n \in Notes |-> FALSE]
    /\ selected = "n1"
    /\ aesOptions = DefaultOptions
    /\ noteId = NoNote
    /\ isLocked = FALSE
    /\ upd = NoNote
    /\ ops = [o \in OpIds |-> IdleOp]
    /\ rng = 0
    /\ report = Silent
    /\ view = NoView
    /\ lab \in {[LabIdle EXCEPT !.pc = "doc", !.P = d] : d \in UtilsDocs}
              \cup {[LabIdle EXCEPT !.pc = "pair", !.C = c, !.env = d] :
                       c \in Configs, d \in Base64Strings}

(* generateEncryptedNote(lab.C, lab.env); the document keeps the pair it
   was built from *)
LabGenerate ==
    /\ lab.pc = "pair"
    /\ lab' = [lab EXCEPT !.pc = "doc", !.P = generateEncryptedNote(lab.C, lab.env)]
    /\ UNCHANGED <<variant, body, tagged, selected, aesOptions, noteId, isLocked,
                   upd, ops, rng, report, view>>

LabDetect ==
    /\ lab.pc = "doc"
    /\ lab' = [lab EXCEPT !.pc = "detected", !.out = {isCodeblockPresent(lab.P, PLUGIN_ID)}]
    /\ UNCHANGED <<variant, body, tagged, selected, aesOptions, noteId, isLocked,
                   upd, ops, rng, report, view>>

LabValidate ==
    /\ lab.pc = "doc"
    /\ lab' = [lab EXCEPT !.pc = "validated", !.out = {validateFormat(lab.P)}]
    /\ UNCHANGED <<variant, body, tagged, selected, aesOptions, noteId, isLocked,
                   upd, ops, rng, report, view>>

LabValidatePayload ==
    /\ lab.pc = "doc"
    /\ lab' = [lab EXCEPT !.pc = "validatedPayload",
                          !.out = {validatePayloadFormat(lab.P, ENCRYPTOR_VERSION)}]
    /\ UNCHANGED <<variant, body, tagged, selected, aesOptions, noteId, isLocked,
                   upd, ops, rng, report, view>>

LabValidateOld ==
    /\ lab.pc = "doc"
    /\ lab' = [lab EXCEPT !.pc = "validatedOld", !.out = {validateOldFormat(lab.P)}]
    /\ UNCHANGED <<variant, body, tagged, selected, aesOptions, noteId, isLocked,
                   upd, ops, rng, report, view>>

NextUtils ==
    LabGenerate \/ LabDetect \/ LabValidate \/ LabValidatePayload \/ LabValidateOld

SpecUtils == InitUtils /\ [][NextUtils]_vars

---------------------------------------------------------------------------
(* Properties of encryptData and decryptData *)

Opened == lab.pc = "opened"
SameConfig == lab.D = lab.C
Fails(rs) == rs # {} /\ \A r \in rs : ~r.ok

(* C2: for all plaintexts P, passwords W and configs C,
   decryptData(encryptData(P, W, C), W, C) returns P. *)
C2_RoundTrip ==
    (Opened /\ lab.field = "none" /\ lab.W2 = lab.W /\ SameConfig)
        => lab.out = {Result(lab.P)}

(* C3: decryptData applied to encryptData(P, W, C) with a password other
   than W raises an error and never returns a string, in every mode and
   key size, whichever config the decryption is given. *)
C3_WrongPasswordFails ==
    (Opened /\ lab.field = "none" /\ lab.W2 # lab.W) => Fails(lab.out)

C3_Witness ==
    /\ Opened /\ lab.field = "none" /\ lab.W2 # lab.W /\ SameConfig
    /\ lab.C.AesMode = "AES-CTR"
    /\ lab.out = {Thrown("hmac")}

(* C4: after a change to any one of salt, iv, tag or ciphertext of an
   envelope made by encryptData, decryptData with the correct password and
   the same config raises an error and returns no plaintext. *)
C4_ChangedFieldFails ==
    (Opened /\ lab.field # "none" /\ lab.W2 = lab.W /\ SameConfig) => Fails(lab.out)

C4_Witness ==
    /\ Opened /\ lab.field = "iv" /\ lab.W2 = lab.W /\ SameConfig
    /\ lab.C.AesMode = "AES-CBC"
    /\ lab.out = {Thrown("hmac")}

---------------------------------------------------------------------------
(* Properties of the controllers *)

(* The lock state of a note as the specification defines it: the fence is
   looked for before the tag *)
LockState(n) ==
    IF isCodeblockPresent(body[n], PLUGIN_ID) THEN "LockedCurrent"
    ELSE IF tagged[n] THEN "LockedLegacy"
    ELSE "Unlocked"

(* The texts that a note of the model can hold unencrypted *)
Texts == Bodies \cup {<<Ch("b")>>, LegacyNote}

(* The draws that the envelope in data names as its salt and its iv *)
DrawsOf(data) ==
    LET d == base64ToArrayBuffer(data)
    IN  IF d.ok /\ Len(d.val) >= 2 /\ d.val[1][1] = "r" /\ d.val[2][1] = "r"
        THEN <<d.val[1][2], d.val[2][2]>>
        ELSE <<>>

(* text is what Encrypt writes for the body B and the password w under the
   setting that text records *)
SealedAs(text, B, w) ==
    LET p == validateFormat(text)
        ids == DrawsOf(p.data)
    IN  /\ p.ok
        /\ p.aesOptions \in Configs
        /\ ids # <<>>
        /\ text = secureNotesBlock(p.aesOptions,
                      encryptData(B, w, p.aesOptions, ids[1], ids[2]).val)

DecryptAt(o, w, B) ==
    /\ ops[o].kind = "decrypt" /\ ops[o].pc = "prompt"
    /\ SealedAs(body[ops[o].note], B, w)
    /\ decryptNote_passwd(o, w)

(* C1: in the fenced controller, Encrypt of an unlocked note with body B and
   password W leaves the note detected as locked, and a Decrypt of that note
   in which W is entered leaves it detected as unlocked with body B. *)
C1_EncryptThenDecrypt ==
    [][/\ \A o \in OpIds :
            encryptNote_put(o) => isCodeblockPresent(body'[ops[o].note], PLUGIN_ID)
       /\ \A o \in OpIds, w \in Passwords, B \in Texts :
            DecryptAt(o, w, B) =>
                /\ body'[ops[o].note] = B
                /\ ~isCodeblockPresent(body'[ops[o].note], PLUGIN_ID)]_vars

(* C1 on the bodies that do not start with U+FEFF *)
C1_WithoutBom ==
    [][/\ \A o \in OpIds :
            encryptNote_put(o) => isCodeblockPresent(body'[ops[o].note], PLUGIN_ID)
       /\ \A o \in OpIds, w \in Passwords, B \in Texts :
            (DecryptAt(o, w, B) /\ (B = <<>> \/ Head(B) # BOM)) =>
                /\ body'[ops[o].note] = B
                /\ ~isCodeblockPresent(body'[ops[o].note], PLUGIN_ID)]_vars

C1_Witness ==
    /\ variant = "fenced"
    /\ report = Toast("Note decrypted successfully")
    /\ body["n1"] = <<>>
    /\ rng = 2

(* C5: once a note is encrypted, a Decrypt or a View of it under any later
   setting uses the mode and key size recorded in the note, so that the
   password of the encryption gives back the original body; a settings
   change writes no note. *)
C5_RecordedConfigDecides ==
    [][/\ \A c \in Settings : updateSettings(c) => (body' = body /\ tagged' = tagged)
       /\ \A o \in OpIds, w \in Passwords, B \in Texts :
            (DecryptAt(o, w, B) /\ aesOptions # ops[o].parsed.encryption[2])
                => body'[ops[o].note] = B
       /\ \A w \in Passwords, B \in Texts :
            (/\ variant = "fenced"
             /\ SealedAs(body[selected], B, w)
             /\ aesOptions # validateFormat(body[selected]).aesOptions
             /\ onMessage_password(w))
                => view' = PasswordResult(TRUE, render(B))]_vars

(* C6: a Decrypt of a note in the fenced format ends after three wrong
   passwords in a row: no prompt is open once three attempts have failed. *)
C6_ThreeAttempts ==
    \A o \in OpIds :
        (ops[o].kind = "decrypt" /\ ops[o].pc = "prompt") => ops[o].tries < 3

(* C7: an Encrypt or a Decrypt that ends because the prompt returned no
   password (dismissed, or empty) writes nothing, whatever the number of
   wrong passwords before: bodies and tags stay as they were. *)
C7_CancelWritesNothing ==
    [][(report'.text = "Password dialog cancelled" /\ report'.by \in {"encrypt", "decrypt"})
          => (body' = body /\ tagged' = tagged)]_vars

C7_Witness ==
    /\ report.text = "Password dialog cancelled"
    /\ report.by = "decrypt"
    /\ report.tries >= 2
    /\ \E n \in Notes : LockState(n) = "LockedCurrent"

(* C9: Encrypt called on a note that is not Unlocked reports "already
   encrypted", opens no prompt and writes nothing. *)
C9_EncryptOnLockedRejected ==
    [][\A o \in OpIds, n \in Notes :
          (encryptNote_call(o, n) /\ LockState(n) # "Unlocked")
              => /\ report' = Toast("Note is already encrypted")
                 /\ ops' = ops
                 /\ body' = body /\ tagged' = tagged]_vars

(* A step of the View operation: the password handler answers, or the
   ViewNote call starts, turns or ends *)
ViewStep ==
    \/ view'.type = "passwordResult"
    \/ \E o \in OpIds :
          /\ ops[o].kind = "view" \/ ops'[o].kind = "view"
          /\ ops'[o] # ops[o]

(* C8: the View operation writes neither a body nor a tag: whatever the
   passwords submitted, right or wrong, bodies and tags stay as they were
   and the note stays locked. *)
C8_ViewWritesNothing ==
    [][ViewStep => (body' = body /\ tagged' = tagged)]_vars

C8_Witness ==
    /\ view.type = "passwordResult" /\ view.ok /\ view.html # <<>>
    /\ variant = "tag"
    /\ noteId # NoNote
    /\ LockState(noteId) = "LockedLegacy"

(* A step in which the Decrypt call o of the tag-based controller succeeds *)
DecryptTagDone(o) ==
    /\ variant = "tag"
    /\ ops[o].kind = "decrypt" /\ ops[o].pc = "prompt"
    /\ ops'[o] = IdleOp
    /\ report' = Toast("Note decrypted successfully")

(* The plaintext of the payload that the call o read *)
PlaintextsOf(o) ==
    {r.val : r \in {x \in UNION {decryptDataWith(ops[o].parsed.data, w, ops[o].parsed.encryption) :
                                     w \in Passwords} : x.ok}}

(* C10: a Decrypt of a tagged note in the legacy format, given the right
   password, leaves that note with the decrypted plaintext as its body and
   without the tag, and encrypts nothing. *)
C10_LegacyDecrypt ==
    [][\A o \in OpIds :
          (DecryptTagDone(o) /\ LockState(ops[o].note) = "LockedLegacy")
              => /\ body'[ops[o].note] \in PlaintextsOf(o)
                 /\ ~tagged'[ops[o].note]
                 /\ ~isCodeblockPresent(body'[ops[o].note], PLUGIN_ID)
                 /\ rng' = rng]_vars

(* C10 for the calls during which the global noteId stays the note read *)
C10_WhenNoteKept ==
    [][\A o \in OpIds :
          (DecryptTagDone(o) /\ LockState(ops[o].note) = "LockedLegacy"
                             /\ noteId = ops[o].note)
              => /\ body'[ops[o].note] \in PlaintextsOf(o)
                 /\ ~tagged'[ops[o].note]
                 /\ ~isCodeblockPresent(body'[ops[o].note], PLUGIN_ID)
                 /\ rng' = rng]_vars

C10_Witness ==
    /\ variant = "tag"
    /\ report = Toast("Note decrypted successfully")
    /\ body["n1"] = <<Ch("a")>> /\ ~tagged["n1"]
    /\ selected = "n1" /\ noteId = "n1"
    /\ rng = 0

(* The operation that a step started in slot o, "idle" when it started none *)
Started(o) == IF ops[o].kind = "idle" THEN ops'[o].kind ELSE "idle"

(* C11: the toggle dispatches on the state of the selected note: Encrypt
   when Unlocked, Decrypt when LockedCurrent, the legacy decrypt when
   LockedLegacy, and never Encrypt on a note that is not Unlocked. *)
C11_ToggleDispatch ==
    [][\A o \in OpIds :
          (toggleLock(o) \/ (toggleLockTag(o) /\ noteId = selected)) =>
              CASE LockState(selected) = "Unlocked" ->
                       Started(o) = "encrypt"
                [] LockState(selected) = "LockedCurrent" ->
                       /\ Started(o) # "encrypt"
                       /\ Started(o) = "decrypt" \/ report' = Toast("Invalid format")
                [] OTHER ->
                       /\ Started(o) # "encrypt"
                       /\ Started(o) = "decrypt"
                          \/ report' = Toast("Invalid note format or version mismatch")]_vars

(* C11 for the notes that are not in the state LockedLegacy, in the
   controller of the fenced format *)
C11_WithoutLegacy ==
    [][\A o \in OpIds :
          (toggleLock(o) /\ LockState(selected) # "LockedLegacy") =>
              IF LockState(selected) = "Unlocked"
              THEN Started(o) = "encrypt"
              ELSE /\ Started(o) # "encrypt"
                   /\ Started(o) = "decrypt" \/ report' = Toast("Invalid format")]_vars

---------------------------------------------------------------------------
(* Properties of the functions of utils *)

(* A fenced code block named SecureNotes: an opening line that starts with
   the fence followed by the name, and a later line that is a fence alone *)
ProperlyFenced(text) ==
    \E i \in 1..Len(text), j \in 1..Len(text) :
        /\ text[i] = FENCE /\ (i = 1 \/ IsNl(text[i - 1]))
        /\ i + 2 < j
        /\ NameMatches(text[i + 1], PLUGIN_ID) /\ IsNl(text[i + 2])
        /\ text[j] = FENCE /\ IsNl(text[j - 1])
        /\ (j = Len(text) \/ IsNl(text[j + 1]))

(* C12: a document with a properly fenced SecureNotes block is detected as
   locked, and a document without one, that only holds the sentinel text
   outside a fenced block, is not. *)
C12_FenceAware ==
    lab.pc = "detected" => (lab.out = {ProperlyFenced(lab.P)})

(* C12, the half on the documents that hold a properly fenced block *)
C12_FencedIsDetected ==
    (lab.pc = "detected" /\ ProperlyFenced(lab.P)) => lab.out = {TRUE}

C12_Witness ==
    lab.pc = "detected" /\ ProperlyFenced(lab.P) /\ lab.P \in FenceDocs

(* The tokens of a text *)
TokensOf(text) == {text[i] : i \in 1..Len(text)}

(* A text without a mode line, without a size line or without a Data section *)
LacksPart(text) ==
    \/ Ch("mode:") \notin TokensOf(text)
    \/ Ch("size:") \notin TokensOf(text)
    \/ Ch("Data") \notin TokensOf(text)

(* C13: validateFormat returns null for a note without its mode line, without
   its size line or without its Data section, and Decrypt of such a note
   reports the invalid format at once, with no prompt and no write. *)
C13_InvalidFormatRejected ==
    [][\A o \in OpIds, n \in Notes :
          (/\ decryptNote_call(o, n) \/ (toggleLock(o) /\ n = selected)
           /\ isCodeblockPresent(body[n], PLUGIN_ID)
           /\ LacksPart(body[n]))
              => /\ validateFormat(body[n]) = Null
                 /\ report' = Toast("Invalid format")
                 /\ ops' = ops
                 /\ body' = body /\ tagged' = tagged]_vars

C13_Witness ==
    /\ report = Toast("Invalid format")
    /\ body[selected] = FormatDoc(TRUE, FALSE, TRUE, DefaultOptions, SampleData(DefaultOptions))
    /\ \A o \in OpIds : ops[o] = IdleOp

(* The configuration that the call o read from its note *)
RecordedConfig(o) == ops[o].parsed.encryption[2]

(* C14: a Decrypt of a note whose recorded mode or key size is unsupported
   ends with a report that is not the wrong-password one; no further prompt
   is shown. *)
C14_ConfigErrorEnds ==
    [][\A o \in OpIds, w \in Passwords :
          (decryptNote_passwd(o, w) /\ RecordedConfig(o) \notin Configs)
              => /\ ops'[o] = IdleOp
                 /\ report' # Silent
                 /\ body' = body]_vars

(* What the code does for C14: every password entered on such a note is
   answered like a wrong password *)
C14_AnsweredAsWrongPassword ==
    [][\A o \in OpIds, w \in Passwords :
          (decryptNote_passwd(o, w) /\ RecordedConfig(o) \notin Configs)
              => /\ ops'[o] = [ops[o] EXCEPT !.msg = "Incorrect password, try again",
                                             !.tries = @ + 1]
                 /\ report' = Silent
                 /\ body' = body]_vars

C14_Witness ==
    \E o \in OpIds :
        /\ ops[o].kind = "decrypt" /\ ops[o].pc = "prompt"
        /\ RecordedConfig(o) = Opts("AES-XYZ", 256)
        /\ ops[o].msg = "Incorrect password, try again"

(* The bytes that the call o read from its note are no base64 text or are
   fewer than the salt, the iv and the tag take *)
BrokenEnvelope(o) ==
    LET d == base64ToArrayBuffer(ops[o].parsed.data)
        aesMode == AesModeOf(RecordedConfig(o))
    IN  ~d.ok \/ BLen(d.val) < SaltLen + IvLength(aesMode) + TagLength(aesMode)

(* C15: an envelope that is no base64 text or is shorter than 16 + ivLen +
   tagLen bytes is rejected as malformed before a key is derived or a tag
   verified, and Decrypt ends on it: no wrong-password prompt follows. *)
C15_BrokenEnvelopeEnds ==
    [][\A o \in OpIds, w \in Passwords :
          (decryptNote_passwd(o, w) /\ BrokenEnvelope(o) /\ RecordedConfig(o) \in Configs)
              => /\ \A r \in decryptData(ops[o].parsed.data, w, RecordedConfig(o)) :
                        ~r.ok /\ r.why \in {"base64", "malformed"}
                 /\ ops'[o] = IdleOp
                 /\ body' = body]_vars

(* What the code does for C15: the envelope is refused, and answered like a
   wrong password *)
C15_AnsweredAsWrongPassword ==
    [][\A o \in OpIds, w \in Passwords :
          (decryptNote_passwd(o, w) /\ BrokenEnvelope(o) /\ RecordedConfig(o) \in Configs)
              => /\ \A r \in decryptData(ops[o].parsed.data, w, RecordedConfig(o)) : ~r.ok
                 /\ ops'[o] = [ops[o] EXCEPT !.msg = "Incorrect password, try again",
                                             !.tries = @ + 1]
                 /\ report' = Silent
                 /\ body' = body]_vars

C15_Witness ==
    \E o \in OpIds :
        /\ ops[o].kind = "decrypt" /\ ops[o].pc = "prompt"
        /\ ops[o].parsed.data = ShortData
        /\ ops[o].tries = 2

(* A step in which the store rejects the write of a Decrypt whose password
   was right *)
PutRejected(o) ==
    \E w \in Passwords : decryptNote_putRejects(o, w) \/ decryptNoteTag_putRejects(o, w)

(* C16: when the store rejects the write of a Decrypt after the plaintext
   was recovered, the operation ends as failed with the body unchanged; it
   does not answer with the wrong-password message nor prompt again. *)
C16_StoreErrorEnds ==
    [][\A o \in OpIds :
          PutRejected(o) => /\ ops'[o] = IdleOp
                            /\ body' = body /\ tagged' = tagged]_vars

(* What the code does for C16: nothing is written, and the attempt is
   answered like a wrong password *)
C16_AnsweredAsWrongPassword ==
    [][\A o \in OpIds :
          PutRejected(o) => /\ ops'[o] = [ops[o] EXCEPT !.msg = "Incorrect password, try again",
                                                        !.tries = @ + 1]
                            /\ body' = body /\ tagged' = tagged]_vars

C16_Witness ==
    /\ report = StoreError
    /\ \E o \in OpIds : ops[o].kind = "decrypt" /\ ops[o].pc = "prompt" /\ ops[o].tries = 1

(* The call o read a note of which a ciphertext bit was flipped, and w is
   the password the note was sealed with *)
TamperedRightPassword(o, w) ==
    ops[o].snap \in TamperedNotes /\ w = <<Ch("p")>>

(* The call o read a note as Encrypt wrote it, and w is not its password *)
IntactWrongPassword(o, w) ==
    \E B \in Texts, w0 \in Passwords : w0 # w /\ SealedAs(ops[o].snap, B, w0)

(* What the caller sees of a failed attempt *)
FailedAttempt(o) ==
    /\ ops'[o] = [ops[o] EXCEPT !.msg = "Incorrect password, try again", !.tries = @ + 1]
    /\ report' = Silent /\ view' = NoView
    /\ body' = body /\ tagged' = tagged

(* C17: in every mode, the right password on a tampered envelope and a wrong
   password on the intact envelope give the caller of Decrypt the same
   outcome: the same message, the same prompt again, no write. *)
C17_SameOutcome ==
    [][\A o \in OpIds, w \in Passwords :
          (decryptNote_passwd(o, w) /\ (TamperedRightPassword(o, w) \/ IntactWrongPassword(o, w)))
              => FailedAttempt(o)]_vars

C17_Witness ==
    \E o \in OpIds :
        /\ ops[o].kind = "decrypt" /\ ops[o].pc = "prompt" /\ ops[o].tries = 1
        /\ ops[o].snap \in TamperedNotes
        /\ RecordedConfig(o).AesMode = "AES-CBC"

(* The other case of C17 is reached too: a wrong password on an intact note *)
C17_WitnessIntact ==
    \E o \in OpIds :
        /\ ops[o].kind = "decrypt" /\ ops[o].pc = "prompt" /\ ops[o].tries = 1
        /\ \E B \in Texts, w0 \in Passwords : SealedAs(ops[o].snap, B, w0)
        /\ RecordedConfig(o).AesMode = "AES-CTR"

(* The draws that the envelope of a note's text names, none if it holds none *)
DrawsInText(text) ==
    LET p == validateFormat(text)
        ids == IF p.ok THEN DrawsOf(p.data) ELSE <<>>
    IN  {ids[k] : k \in 1..Len(ids)}

(* The draws held by the notes and by the calls of encryptData under way *)
DrawsHeldBy(bodies, calls) ==
    UNION {DrawsInText(bodies[n]) : n \in Notes}
        \cup {calls[o].salt : o \in {q \in OpIds : calls[q].pc = "encryptData"}}

(* An envelope names two different draws, no two notes share a draw, and
   every draw held was taken from the random source *)
DrawsApart(bodies, calls, drawn) ==
    /\ \A n \in Notes :
          DrawsInText(bodies[n]) # {} => Cardinality(DrawsInText(bodies[n])) = 2
    /\ \A n \in Notes, m \in Notes :
          n # m => DrawsInText(bodies[n]) \cap DrawsInText(bodies[m]) = {}
    /\ \A d \in DrawsHeldBy(bodies, calls) : d < drawn

(* C18: every encryptData draws its salt and its iv anew: an envelope names
   two different draws, no two stored envelopes share a draw, and the
   envelope that an Encrypt writes names no draw that a note held before the
   call took its salt, also for the same plaintext, password and setting. *)
C18_FreshSaltAndIv ==
    [][/\ DrawsApart(body, ops, rng) /\ DrawsApart(body', ops', rng')
       /\ \A o \in OpIds, w \in Passwords :
             /\ encryptNote_passwd(o, w) => ops'[o].salt \notin DrawsHeldBy(body, ops)
             /\ encryptNote_put(o) =>
                   \A n \in Notes : n = ops[o].note =>
                       /\ DrawsInText(body'[n]) = {ops[o].salt, rng}
                       /\ rng \notin DrawsHeldBy(body, ops)]_vars

(* Two encryptions of the same plaintext with the same password under the
   same setting have happened, and the two envelopes are stored *)
C18_Witness ==
    /\ lab.pc = "fresh"
    /\ rng = 4
    /\ \E w \in Passwords :
          /\ SealedAs(body["n1"], <<Ch("a")>>, w)
          /\ SealedAs(body["n2"], <<Ch("a")>>, w)
    /\ validateFormat(body["n1"]).aesOptions = validateFormat(body["n2"]).aesOptions
    /\ body["n1"] # body["n2"]

(* C19: a step of an Encrypt or a Decrypt changes the body and the tag of no
   note other than the one that the call read, also when another note was
   selected while the call waited at its prompt. *)
C19_OnlyOwnNote ==
    [][\A o \in OpIds, n \in Notes :
          (/\ ops[o].kind \in {"encrypt", "decrypt"}
           /\ ops[o].note # NoNote
           /\ ops'[o] # ops[o]
           /\ n # ops[o].note)
              => (body'[n] = body[n] /\ tagged'[n] = tagged[n])]_vars

(* A call of the controller of the fenced format has ended with a write
   while the other note was selected *)
C19_Witness ==
    /\ variant = "fenced"
    /\ report = Toast("Note encrypted successfully")
    /\ selected = "n2"
    /\ isCodeblockPresent(body["n1"], PLUGIN_ID)
    /\ body["n2"] = <<Ch("b")>>


(* C20: when decryptData runs under AES-CBC or AES-CTR, every call of the
   cipher's decrypt is preceded by the verification of the HMAC over
   salt || iv || ciphertext of the same bytes, and when the verification
   fails decrypt is not called and the outcome is the HMAC failure *)
C20_VerifyThenDecrypt ==
    (lab.pc = "opened" /\ AesModeOf(lab.D) \in {"AES-CBC", "AES-CTR"}) =>
        LET calls == decryptDataCalls(lab.env, lab.W2, lab.D)
            bytes == base64ToArrayBuffer(lab.env).val
            salt == Slice(bytes, 0, SaltLen)
            head == Slice(bytes, 0, SaltLen + IvLen)
            tag == Slice(bytes, SaltLen + IvLen, SaltLen + IvLen + HmacTagLen)
            ciphertext == SliceFrom(bytes, SaltLen + IvLen + HmacTagLen)
            signed == HmacVerify(deriveHmacKey(lab.W2, salt), tag, Cat(head, ciphertext))
        IN  /\ \A i \in 1..Len(calls) :
                  calls[i].fn = "decrypt" =>
                      /\ calls[i].data = ciphertext
                      /\ signed
                      /\ \E j \in 1..(i - 1) :
                            calls[j] = Call("verify", "HMAC", Cat(head, calls[i].data))
            /\ ~signed => lab.out = {Thrown("hmac")}
            /\ signed => \E i \in 1..Len(calls) : calls[i].fn = "decrypt"

(* A ciphertext bit was flipped and the right password and settings given:
   the verification fails, where the cipher would have been handed the
   changed bytes *)
C20_Witness ==
    /\ lab.pc = "opened"
    /\ lab.field = "ciphertext"
    /\ lab.C.AesMode = "AES-CBC"
    /\ lab.D = lab.C
    /\ lab.W2 = lab.W
    /\ lab.out = {Thrown("hmac")}
    /\ \A i \in 1..Len(decryptDataCalls(lab.env, lab.W2, lab.D)) :
          decryptDataCalls(lab.env, lab.W2, lab.D)[i].fn # "decrypt"

(* An untouched envelope opened with its password under AES-CTR: decrypt
   runs, after the verification *)
C20_WitnessValid ==
    /\ lab.pc = "opened"
    /\ lab.field = "none"
    /\ lab.C.AesMode = "AES-CTR"
    /\ lab.D = lab.C
    /\ lab.W2 = lab.W
    /\ \E i \in 1..Len(decryptDataCalls(lab.env, lab.W2, lab.D)) :
          decryptDataCalls(lab.env, lab.W2, lab.D)[i].fn = "decrypt"


(* The document that Encrypt writes records the setting that encryptData was
   called with, and its password opens it *)
WrittenAsSealed(o, written) ==
    LET p == validateFormat(written)
    IN  /\ p.ok
        /\ p.aesOptions = ops[o].opts
        /\ \E r \in decryptData(p.data, ops[o].pw, p.aesOptions) : r.ok

(* C21: the mode and key size that Encrypt writes into the document are the
   ones the envelope was produced with, also when the settings change while
   encryptData is under way, and the document opens with its password. *)
C21_RecordedIsUsed ==
    [][\A o \in OpIds :
          encryptNote_put(o) =>
              \A n \in Notes : n = ops[o].note => WrittenAsSealed(o, body'[n])]_vars

(* It holds of the writes during which the settings were left alone *)
C21_WhenSettingsKept ==
    [][\A o \in OpIds :
          (encryptNote_put(o) /\ aesOptions = ops[o].opts) =>
              \A n \in Notes : n = ops[o].note => WrittenAsSealed(o, body'[n])]_vars


(* C22: under AES-CBC and AES-CTR, for every password, salt and key size,
   the key bytes of deriveHmacKey differ from the key bytes of pbdkf2, and
   the cipher key is not the first bytes of the authentication key. *)
C22_KeysIndependent ==
    (lab.pc = "derived" /\ lab.C.AesMode \in {"AES-CBC", "AES-CTR"}) =>
        \A r \in lab.out :
            /\ r.cipher # r.hmac
            /\ r.cipher # TakeB(r.hmac, BLen(r.cipher))

(* What holds instead: the cipher key is the first KeySize bits of the
   authentication key, and the whole of it when the key size is 256 *)
C22_CipherKeyIsPrefix ==
    lab.pc = "derived" =>
        \A r \in lab.out :
            /\ BLen(r.cipher) = lab.C.KeySize \div 8
            /\ r.cipher = TakeB(r.hmac, BLen(r.cipher))
            /\ lab.C.KeySize = HmacKeyBits => r.cipher = r.hmac


(* C23: a result of validateFormat that is not null carries a supported
   mode and key size; a result of validatePayloadFormat or validateOldFormat
   that is not null carries a configuration object that is not null, with a
   supported mode and key size. *)
C23_AcceptedIsWellFormed ==
    /\ lab.pc = "validated" =>
          \A r \in lab.out : r.ok => r.aesOptions \in Configs
    /\ lab.pc \in {"validatedPayload", "validatedOld"} =>
          \A r \in lab.out :
              r.ok => (r.encryption[1] = "object" /\ r.encryption[2] \in Configs)

(* What the three functions do ensure of a result that is not null: the
   mode text is not empty and the size is a number of the document, and the
   legacy encryption field has the type object, which null has too *)
C23_AcceptedHasFields ==
    /\ lab.pc = "validated" =>
          \A r \in lab.out : r.ok => (r.aesOptions.AesMode # "" /\ ~LacksPart(lab.P))
    /\ lab.pc \in {"validatedPayload", "validatedOld"} =>
          \A r \in lab.out :
              r.ok => (/\ r.encryption[1] \in {"object", "null"}
                       /\ JsonParse(lab.P).val.data = Str(r.data))


(* The lengths of the iv and of the tag that the layout fixes for a mode *)
LayoutIvLen(mode) == IF mode = "AES-GCM" THEN GcmIvLen ELSE IvLen
LayoutTagLen(mode) == IF mode = "AES-GCM" THEN GcmTagLen ELSE HmacTagLen

(* The output of the cipher for the plaintext, without the tag of AES-GCM *)
CipherOutput(mode, key, iv, pt) ==
    CASE mode = "AES-GCM" -> TakeB(GcmSeal(key, iv, pt), BLen(pt))
      [] mode = "AES-CTR" -> CtrEncrypt(key, iv, pt)
      [] OTHER -> CbcEncrypt(key, iv, pt)

(* C24: in every mode the bytes that encryptData encodes are the salt (16
   bytes), the iv (12 bytes for AES-GCM, 16 otherwise), the tag (16 bytes for
   AES-GCM, 32 otherwise) and the ciphertext, in this order and with nothing
   else, and the slices that decryptData takes at the fixed offsets are that
   salt, iv, tag and ciphertext: the untouched envelope opens under its
   password and setting. *)
C24_EnvelopeLayout ==
    /\ (lab.pc \in {"sealed", "opened"} /\ lab.field = "none") =>
          LET mode == AesModeOf(lab.C)
              bytes == base64ToArrayBuffer(lab.env).val
              salt == Whole("r", rng - 2, SaltLen)
              iv == Whole("r", rng - 1, LayoutIvLen(mode))
              key == pbdkf2(lab.W, salt, KeySizeOf(lab.C), mode).val
              ctext == CipherOutput(mode, key, iv, TextEncode(lab.P))
              a == SaltLen + LayoutIvLen(mode)
              b == a + LayoutTagLen(mode)
              tag == Slice(bytes, a, b)
          IN  /\ BLen(bytes) = b + BLen(ctext)
              /\ Slice(bytes, 0, SaltLen) = salt
              /\ Slice(bytes, SaltLen, a) = iv
              /\ BLen(tag) = LayoutTagLen(mode)
              /\ IF mode = "AES-GCM"
                 THEN Cat(ctext, tag) = GcmSeal(key, iv, TextEncode(lab.P))
                 ELSE tag = HmacSign(deriveHmacKey(lab.W, salt), Cat(Cat(salt, iv), ctext))
              /\ SliceFrom(bytes, b) = ctext
    /\ (lab.pc = "opened" /\ lab.field = "none" /\ lab.W2 = lab.W /\ lab.D = lab.C) =>
          \A r \in lab.out : r.ok

(* An envelope of AES-CBC was built for a text of several lines and opened
   with its password and setting *)
C24_Witness ==
    /\ lab.pc = "opened"
    /\ lab.field = "none"
    /\ lab.C = Opts("AES-CBC", 128)
    /\ lab.P = <<Ch("a"), NL, Ch("b")>>
    /\ lab.W2 = lab.W /\ lab.D = lab.C
    /\ \E r \in lab.out : r.ok


(* C25: for every supported mode and key size and every base64 string D
   that is not empty, validateFormat of generateEncryptedNote(config, D)
   returns that mode, that key size and D; the document is detected as
   locked; and the template is the one that encryptNote writes. *)
C25_FormatRoundTrip ==
    /\ (lab.pc = "validated" /\ lab.env # <<>>) =>
          lab.out = {[ok |-> TRUE, aesOptions |-> lab.C, data |-> lab.env]}
    /\ (lab.pc = "detected" /\ lab.env # <<>>) =>
          (lab.out = {TRUE} /\ isNoteLocked(lab.P))
    /\ (lab.pc = "doc" /\ lab.env # <<>>) =>
          lab.P = secureNotesBlock(lab.C, lab.env)

(* A document built for AES-CTR / 128 around the string Data, itself a word
   of the format, was parsed *)
C25_Witness ==
    /\ lab.pc = "validated"
    /\ lab.C = Opts("AES-CTR", 128)
    /\ lab.env = <<Ch("Data")>>
    /\ \E r \in lab.out : r.ok /\ r.data = lab.env


(* No call of Encrypt, Decrypt or View is under way *)
NoneInFlight == \A o \in OpIds : ops[o].kind = "idle"

IsLegacyPayload(text) == validatePayloadFormat(text, ENCRYPTOR_VERSION).ok

(* C26: in the tag-based controller, whenever no operation is in flight, a
   note carries the lock tag if and only if its body is a legacy payload,
   also after an Encrypt or Decrypt during which the tag store rejected the
   request. *)
C26_TagIffPayload ==
    (variant = "tag" /\ NoneInFlight) =>
        \A n \in Notes : tagged[n] <=> IsLegacyPayload(body[n])

(* What holds of the steps in which the tag store answered: a completed
   Encrypt leaves a tagged payload in the note it wrote, and a completed
   Decrypt leaves the decrypted text there without the tag *)
C26_WhenTagStoreAnswers ==
    [][\A o \in OpIds, n \in Notes :
          n = noteId =>
              /\ encryptNoteTag_put(o) => (tagged'[n] /\ IsLegacyPayload(body'[n]))
              /\ \A w \in Passwords :
                    (decryptNoteTag_passwd(o, w) /\ ops'[o].kind = "idle") =>
                        /\ ~tagged'[n]
                        /\ \E r \in decryptDataWith(ops[o].parsed.data, w,
                                                    ops[o].parsed.encryption) :
                              r.ok /\ body'[n] = r.val]_vars

(* The body that a note of the runs of overlapping calls starts with *)
OriginalBody(n) == IF n = "n1" THEN <<Ch("a")>> ELSE <<Ch("b")>>

(* The text is a document as Encrypt writes it, in either format *)
IsEnvelope(text) == isCodeblockPresent(text, PLUGIN_ID) \/ IsLegacyPayload(text)

(* The outcomes of one Decrypt of the document with the password w *)
OpensTo(text, w) ==
    IF variant = "fenced"
    THEN LET p == validateFormat(text)
         IN  IF p.ok THEN decryptData(p.data, w, p.aesOptions) ELSE {}
    ELSE LET q == validatePayloadFormat(text, ENCRYPTOR_VERSION)
         IN  IF q.ok THEN decryptDataWith(q.data, w, q.encryption) ELSE {}

Restorable(n) ==
    IF IsEnvelope(body[n])
    THEN \E w \in Passwords : \E r \in OpensTo(body[n], w) : r.ok /\ r.val = OriginalBody(n)
    ELSE body[n] = OriginalBody(n)

(* C27: when two Encrypt calls overlap on the same unlocked note, the second
   invoked while the first waits at its prompt, then once both are complete
   the body is not an envelope of an envelope: one Decrypt with one of the
   entered passwords gives the original body. In every controller. *)
C27_OverlapRestores ==
    (lab.pc = "overlap" /\ NoneInFlight) => \A n \in Notes : Restorable(n)

(* It holds in the controller of the fenced format, whose calls encrypt the
   body they read before the prompt *)
C27_FencedRestores ==
    (lab.pc = "overlap" /\ variant = "fenced" /\ NoneInFlight) =>
        \A n \in Notes : Restorable(n)

(* Both calls of the fenced controller have written: the draws of two
   encryptions are taken and the note is an envelope *)
C27_FencedBothWrote ==
    /\ lab.pc = "overlap" /\ variant = "fenced" /\ NoneInFlight
    /\ rng = 4
    /\ IsEnvelope(body["n1"])


(* Decrypt on the document succeeds with the text as typed into the dialog:
   showPasswdDialog returns it unchanged when it is not empty *)
DialogOpens(text, typed) ==
    LET p == validateFormat(text)
    IN  /\ typed # <<>>
        /\ p.ok
        /\ \E r \in decryptData(p.data, typed, p.aesOptions) : r.ok

(* C28: for every locked note and every text the user can type, submitting
   it in the secure view succeeds if and only if entering it in the Decrypt
   dialog succeeds; a password that Encrypt accepted unlocks the view, also
   one with a space before or after it. *)
C28_SamePasswords ==
    [][\A o \in OpIds :
          /\ onMessage_passwordOf(o) =>
                ((ops'[o].msg = "html") <=> DialogOpens(body[selected], ops[o].snap))
          /\ \A t \in TypedStrings :
                (handleSubmit(o, t) /\ ops' = ops) => ~DialogOpens(body[selected], t)]_vars

(* It holds of the texts without a space at either end *)
C28_WhenNothingToTrim ==
    [][\A o \in OpIds :
          (onMessage_passwordOf(o) /\ Trim(ops[o].snap) = ops[o].snap) =>
              ((ops'[o].msg = "html") <=> DialogOpens(body[selected], ops[o].snap))]_vars

(* C29: the view becomes unlocked if and only if the host decrypted the
   note: after a wrong password or an invalid format it stays as it was,
   locked and without content, and after the right password it shows the
   rendered text, also the empty one. Stated of the replies that arrive while
   the note they were asked for is still displayed. *)
C29_UnlockedIffDecrypted ==
    [][\A o \in OpIds :
          (handleSubmit_resumes(o) /\ view = LockedView) =>
              IF ops[o].msg = "html"
              THEN view' = Unlocked(ops[o].parsed.data)
              ELSE view' = LockedView]_vars

(* What each script does ensure: runtime.js shows every text that the host
   decrypted, the script of part_005 stays locked after every failure and
   shows every decrypted text that is not empty *)
C29_EachScriptsHalf ==
    [][\A o \in OpIds :
          (handleSubmit_resumes(o) /\ view = LockedView) =>
              /\ (lab.pc = "runtime.js" /\ ops[o].msg = "html")
                    => view' = Unlocked(ops[o].parsed.data)
              /\ (lab.pc = "part_005" /\ ops[o].msg = "false") => view' = LockedView
              /\ (lab.pc = "part_005" /\ ops[o].msg = "html" /\ ops[o].parsed.data # <<>>)
                    => view' = Unlocked(ops[o].parsed.data)]_vars

(* The rendered texts that the displayed note decrypts to *)
TextsOfDisplayed ==
    LET p == validateFormat(body[selected])
    IN  IF ~p.ok THEN {}
        ELSE {render(r.val) :
                r \in {x \in UNION {decryptData(p.data, w, p.aesOptions) :
                                       w \in TypedStrings} : x.ok}}

(* C30: the decrypted text that the view shows belongs to the note that is
   displayed, also when the reply to a submission for the note displayed
   before arrives after the update. *)
C30_ShownBelongsToNote ==
    (/\ lab.pc \in ViewScripts
     /\ view.type = "unlocked"
     /\ view.html \notin {FalseText, <<>>}) =>
        view.html \in TextsOfDisplayed

(* What holds: right after a note update the view is locked and its content
   element holds no decrypted text *)
C30_LockedAfterUpdate ==
    [][\A n \in Notes : noteDidUpdate(n) => (view'.type # "unlocked" /\ view'.html = <<>>)]_vars

===========================================================================
